---------------------------- MODULE Spec2Model ----------------------------
(***************************************************************************)
(* A model of the ESPRESSO feed-log pipeline: loading one FeedLog/MetaData *)
(* pair into an experiment (espresso.__init__ with the munger functions it *)
(* calls), and the munger functions that aggregate the loaded feeds for    *)
(* the contrast, timecourse and cumulative views.                          *)
(*                                                                         *)
(* Tables are sequences of records, one record per row, one field per      *)
(* column.  A float64 cell x is held as the integer x * FP (one decimal      *)
(* place), so that 0.5 s and 1/2 feed are exact; NaN and Inf are two       *)
(* values outside every modelled range.  A null in a string column is the  *)
(* string NaNStr.  munger.py calls the subject column ChamberID and        *)
(* espresso.py calls it FlyID; it is one column here, ChamberID.           *)
(***************************************************************************)
EXTENDS Integers, Sequences, FiniteSets, TLC

VARIABLES pc, metadata_csv, feedlog_csv, non_feeding_flies, flies, feeds,
          cumulative_dtype, result, expts, lists

vars == <<pc, metadata_csv, feedlog_csv, non_feeding_flies, flies, feeds,
          cumulative_dtype, result, expts, lists>>

-----------------------------------------------------------------------------
(* Bounds of the model.                                                    *)

MaxFlies == 2

MaxFeeds == 2

-----------------------------------------------------------------------------
(* Cells.                                                                  *)

FP == 10

NaN == -1000000000

Inf == 0 - NaN

NaNStr == "NaN"

IsNum(x) == x # NaN /\ x # Inf

ToFloat(i) == IF i = NaN THEN NaN ELSE i * FP

(* float64 division: x/0 is inf, 0/0 and anything with a NaN is NaN.       *)
FDiv(a, b) ==
    IF a = NaN \/ b = NaN THEN NaN
    ELSE IF b = 0 THEN (IF a = 0 THEN NaN ELSE Inf)
    ELSE IF a = Inf THEN (IF b = Inf THEN NaN ELSE Inf)
    ELSE IF b = Inf THEN 0
    ELSE (a * FP) \div b

FMul(a, b) ==
    IF a = NaN \/ b = NaN THEN NaN
    ELSE IF a = Inf \/ b = Inf THEN (IF a = 0 \/ b = 0 THEN NaN ELSE Inf)
    ELSE (a * b) \div FP

FAdd(a, b) ==
    IF a = NaN \/ b = NaN THEN NaN
    ELSE IF a = Inf \/ b = Inf THEN Inf
    ELSE a + b

(* A comparison with NaN is False.                                         *)
FLt(a, b) ==
    /\ a # NaN
    /\ b # NaN
    /\ a # b
    /\ \/ b = Inf
       \/ a # Inf /\ a < b

-----------------------------------------------------------------------------
(* Sequences as tables.                                                    *)

Range(s) == {s[i] : i \in DOMAIN s}

Column(df, c) == [i \in DOMAIN df |-> df[i][c]]

Unique(df, c) == {df[i][c] : i \in DOMAIN df}

RECURSIVE Filter(_, _)
(* The rows of df at the positions in keep, in their order.                *)
Filter(df, keep) ==
    IF df = <<>> THEN <<>>
    ELSE LET n == Len(df)
             front == Filter(SubSeq(df, 1, n - 1), keep)
         IN IF n \in keep THEN Append(front, df[n]) ELSE front

LexLess(a, b) ==
    \E i \in DOMAIN a :
        /\ a[i] < b[i]
        /\ \A j \in 1..(i - 1) : a[j] = b[j]

(* A stable sort of df by the integer tuples key[i].                       *)
SortByKey(df, key) ==
    LET n == Len(df)
        before(i) == {j \in 1..n : \/ LexLess(key[j], key[i])
                                   \/ key[j] = key[i] /\ j < i}
    IN [p \in 1..n |-> df[CHOOSE i \in 1..n : Cardinality(before(i)) = p - 1]]

RECURSIVE SumSkipNa(_)
(* pandas sum: NaN cells are skipped, the sum of nothing is 0.             *)
SumSkipNa(s) ==
    IF s = <<>> THEN 0
    ELSE LET n == Len(s)
             rest == SumSkipNa(SubSeq(s, 1, n - 1))
         IN IF s[n] = NaN THEN rest ELSE FAdd(rest, s[n])

(* pandas min: NaN cells are skipped, the minimum of nothing is NaN.       *)
MinSkipNa(s) ==
    LET vals == {s[i] : i \in DOMAIN s} \ {NaN}
    IN IF vals = {} THEN NaN
       ELSE CHOOSE v \in vals : \A w \in vals : ~FLt(w, v)

-----------------------------------------------------------------------------
(* The inputs: one MetaData CSV and its FeedLog CSV, as read_csv returns   *)
(* them.                                                                   *)

expt_duration_minutes == 60

(* A fly's metadata row without its ID: genotype, '#Flies', the two food   *)
(* columns.                                                                *)
FlyProfiles ==
    { [Genotype |-> "W1118", FlyCountInChamber |-> NaN, Tube1 |-> "5%S", Tube2 |-> "5%YE"],
      [Genotype |-> "W1118", FlyCountInChamber |-> 2,   Tube1 |-> "5%S", Tube2 |-> "5%YE"],
      [Genotype |-> "Trp",   FlyCountInChamber |-> NaN, Tube1 |-> "5%S", Tube2 |-> "5%YE"],
      [Genotype |-> "Trp",   FlyCountInChamber |-> NaN, Tube1 |-> "5%S", Tube2 |-> NaNStr] }

MetadataInputs ==
    { [i \in 1..MaxFlies |-> [ID |-> i] @@ p[i]] : p \in [1..MaxFlies -> FlyProfiles] }

FeedRow(fly, choice, avi, vol, dur, t) ==
    [ChamberID |-> fly, ChoiceIdx |-> choice, AviFile |-> avi,
     FeedVol_ul |-> ToFloat(vol), FeedDuration_ms |-> ToFloat(dur),
     RelativeTime_s |-> ToFloat(t), Valid |-> TRUE, ExperimentState |-> "FEED"]

(* Recorded feeds of the flies in the metadata (the FeedLog numbers them   *)
(* from 0): at the very start, inside the hour, and in the overrun after   *)
(* the nominal end of the experiment.                                      *)
CleanRows ==
    { FeedRow(fly, choice, "clip.avi", vol, 1000, t) :
        fly \in 0..(MaxFlies - 1), choice \in {0, 1}, vol \in {10, 20},
        t \in {0, 900, 1800, 3700} }

(* Rows with a defect: no recording, a negative elapsed time, a missing    *)
(* volume, a negative volume, a fly the metadata does not list.            *)
DefectRows ==
    { FeedRow(0, 0, "Null", 10, 1000, 900),
      FeedRow(0, 0, "clip.avi", -10, 1000, 1800),
      FeedRow(0, 0, "clip.avi", 10, 1000, -5),
      FeedRow(0, 0, "clip.avi", NaN, 1000, 900),
      FeedRow(MaxFlies, 0, "clip.avi", 10, 1000, 900) }

RowSet == CleanRows \cup DefectRows

RowKey(r) ==
    <<r.ChamberID, r.ChoiceIdx, r.RelativeTime_s, r.FeedVol_ul,
      IF r.AviFile = "Null" THEN 1 ELSE 0>>

(* Every log of at most MaxFeeds rows, each once up to the order of its    *)
(* rows (no result of the pipeline depends on the order of the log).       *)
FeedlogInputs ==
    UNION { { f \in [1..n -> RowSet] :
                \A i \in 1..(n - 1) :
                    RowKey(f[i]) = RowKey(f[i + 1]) \/ LexLess(RowKey(f[i]), RowKey(f[i + 1])) }
            : n \in 0..MaxFeeds }

-----------------------------------------------------------------------------
(* munger.metadata and munger.feedlog.                                     *)

TubeFix(s) ==
    CASE s = "5%S" -> "5% sucrose "
      [] s = "5%YE" -> " 5% yeast extract"
      [] OTHER -> s

(* The columns of the table df.                                            *)
Columns(df) == IF df = <<>> THEN {} ELSE DOMAIN df[1]

StrCols == {"AviFile", "ExperimentState", "FoodChoice", "Genotype", "Status",
            "Tube1", "Tube2", "Tube3"}

Null(c) == IF c \in StrCols THEN NaNStr ELSE NaN

(* dropna(axis=1, how='all'): a column with no value in any row goes.      *)
DropEmptyColumns(df) ==
    LET keep == {c \in Columns(df) : \E i \in DOMAIN df : df[i][c] # Null(c)}
    IN [i \in DOMAIN df |-> [c \in keep |-> df[i][c]]]

(* Lines 25 to 27: the exception the call raises, "none" when it returns.  *)
(* The message of the ValueError is built as metadata + ' has 0 rows...',  *)
(* where metadata is the function itself: the sum of a function and a str  *)
(* raises TypeError before ValueError is constructed.                      *)
metadata_raises(csv) == IF Len(csv) = 0 THEN "TypeError" ELSE "none"

metadata(csv) ==
    LET filled == DropEmptyColumns(csv)
    IN [i \in DOMAIN filled |->
           [c \in Columns(filled) \cup {"FlyCountInChamber"} |->
               CASE c = "FlyCountInChamber" ->
                        IF c \in Columns(filled) /\ filled[i][c] # NaN THEN filled[i][c] ELSE 1
                 [] c \in {"Tube1", "Tube2", "Tube3"} -> TubeFix(filled[i][c])
                 [] OTHER -> filled[i][c]]]

(* Lines 85 to 87, before the rows are dropped: as in metadata, the        *)
(* message is built as feedlog + ' has 0 rows...'.                         *)
feedlog_raises(csv) == IF Len(csv) = 0 THEN "TypeError" ELSE "none"

(* feedlog dropping the rows at 0 s with those before it.                  *)
feedlog_DropsZeroTime(csv) ==
    LET notNull == Filter(csv, {i \in DOMAIN csv : csv[i].AviFile # "Null"})
        positive == Filter(notNull, {i \in DOMAIN notNull : FLt(0, notNull[i].RelativeTime_s)})
    IN [i \in DOMAIN positive |-> [positive[i] EXCEPT !.ChamberID = @ + 1]]

feedlog(csv) ==
    LET notNull == Filter(csv, {i \in DOMAIN csv : csv[i].AviFile # "Null"})
        nonNeg == Filter(notNull, {i \in DOMAIN notNull : ~FLt(notNull[i].RelativeTime_s, 0)})
    IN [i \in DOMAIN nonNeg |-> [nonNeg[i] EXCEPT !.ChamberID = @ + 1]]

-----------------------------------------------------------------------------
(* detect_non_feeding_flies and add_padrows.                               *)

(* A row has a null in some column.  (Valid is null only in rows that     *)
(* have other nulls, and is left out of the test.)                         *)
RowHasNa(r) == \E c \in DOMAIN r \ {"Valid", "AtLeastOneFeed"} : r[c] = Null(c)

(* DataFrame.dropna(): axis=0, how='any'.                                  *)
dropna(df) == Filter(df, {i \in DOMAIN df : ~RowHasNa(df[i])})

detect_non_feeding_flies(metadata_df, feedlog_df) ==
    {c \in Unique(metadata_df, "ChamberID") :
        c \notin Unique(dropna(feedlog_df), "ChamberID")}

(* A pad row that keeps the default of a recorded feed, Valid = True.      *)
padrow_Valid(chamberid, choice, t) ==
    [ChamberID |-> chamberid, ChoiceIdx |-> choice, AviFile |-> NaNStr,
     FeedVol_ul |-> NaN, FeedDuration_ms |-> NaN,
     RelativeTime_s |-> t, Valid |-> TRUE, ExperimentState |-> "PAD"]

padrow(chamberid, choice, t) ==
    [ChamberID |-> chamberid, ChoiceIdx |-> choice, AviFile |-> NaNStr,
     FeedVol_ul |-> NaN, FeedDuration_ms |-> NaN,
     RelativeTime_s |-> t, Valid |-> FALSE, ExperimentState |-> "PAD"]

(* The set S as a sequence in ascending order.                             *)
Ascending(S) ==
    [p \in 1..Cardinality(S) |->
        CHOOSE v \in S : Cardinality({w \in S : w < v}) = p - 1]

RECURSIVE Flatten(_)
Flatten(ss) == IF ss = <<>> THEN <<>> ELSE Head(ss) \o Flatten(Tail(ss))

(* add_padrows with the append after the inner loop, as the first version  *)
(* of the function has it: only the last choice of each fly is padded.     *)
all_padrows_LastChoiceOnly(metadata_df, feedlog_df, time_end, time_start) ==
    LET end_time == time_end + ToFloat(289)
        chambers == Ascending(Unique(metadata_df, "ChamberID"))
        choices == Ascending(Unique(feedlog_df, "ChoiceIdx"))
    IN IF choices = <<>> THEN <<>>
       ELSE Flatten([i \in DOMAIN chambers |->
                << padrow(chambers[i], choices[Len(choices)], time_start + FP \div 2),
                   padrow(chambers[i], choices[Len(choices)], end_time) >>])

(* The pad rows of add_padrows, in the order of its two loops.             *)
all_padrows(metadata_df, feedlog_df, time_end, time_start) ==
    LET end_time == time_end + ToFloat(289)
        chambers == Ascending(Unique(metadata_df, "ChamberID"))
        choices == Ascending(Unique(feedlog_df, "ChoiceIdx"))
    IN Flatten([i \in DOMAIN chambers |->
           Flatten([j \in DOMAIN choices |->
               << padrow(chambers[i], choices[j], time_start + FP \div 2),
                  padrow(chambers[i], choices[j], end_time) >>])])

add_padrows(metadata_df, feedlog_df, time_end, time_start) ==
    feedlog_df \o all_padrows(metadata_df, feedlog_df, time_end, time_start)

-----------------------------------------------------------------------------
(* The per-row computations of the load.                                   *)

(* A column assignment f[c] = v: the column is added, or written over.     *)
Assign(row, cols) == cols @@ row

(* compute_nanoliter_cols converting the volume column itself to           *)
(* nanoliters.                                                             *)
compute_nanoliter_cols_InPlace(f) ==
    [i \in DOMAIN f |->
        LET nl == FMul(f[i].FeedVol_ul, ToFloat(1000))
        IN Assign(f[i], [FeedVol_ul |-> nl, FeedVol_nl |-> nl,
                         FeedSpeed_nl_s |-> FDiv(nl, FDiv(f[i].FeedDuration_ms, ToFloat(1000)))])]

compute_nanoliter_cols(f) ==
    [i \in DOMAIN f |->
        LET nl == FMul(f[i].FeedVol_ul, ToFloat(1000))
        IN Assign(f[i], [FeedVol_nl |-> nl,
                         FeedSpeed_nl_s |-> FDiv(nl, FDiv(f[i].FeedDuration_ms, ToFloat(1000)))])]

compute_time_cols(f) ==
    [i \in DOMAIN f |->
        Assign(f[i], [FeedDuration_s |-> FDiv(f[i].FeedDuration_ms, ToFloat(1000))])]

(* mapper.loc[chamberid, 'Tube<choiceid>'], NaN on a KeyError.             *)
assign_food_choice(chamberid, choiceid, mapper) ==
    IF chamberid \notin Unique(mapper, "ChamberID") THEN NaNStr
    ELSE LET fly == mapper[CHOOSE i \in DOMAIN mapper : mapper[i].ChamberID = chamberid]
             tube == CASE choiceid = 1 -> "Tube1"
                       [] choiceid = 2 -> "Tube2"
                       [] choiceid = 3 -> "Tube3"
                       [] OTHER -> "Tube"
         IN IF tube \in DOMAIN fly THEN fly[tube] ELSE NaNStr

(* allfeeds.dropna(axis=0, how='any') with only a food choice to look at:  *)
(* dropna(subset=['FoodChoice']).                                          *)
drop_unassigned_FoodChoiceOnly(allfeeds) ==
    Filter(allfeeds, {i \in DOMAIN allfeeds : allfeeds[i].FoodChoice # NaNStr})

(* Line 135: allfeeds.dropna(axis=0, how='any', inplace=True).             *)
drop_unassigned(allfeeds) == dropna(allfeeds)

(* Genotype.str.replace('W','w') and .replace('iii','111') on the          *)
(* genotypes of the model.                                                 *)
GenotypeFix(g) == IF g = "W1118" THEN "w1118" ELSE g

(* The characters of the genotypes of the model.                            *)
Chars(s) ==
    CASE s = "w1118"     -> <<"w", "1", "1", "1", "8">>
      [] s = "W1118"     -> <<"W", "1", "1", "1", "8">>
      [] s = "Trp"       -> <<"T", "r", "p">>
      [] s = "elav"      -> <<"e", "l", "a", "v">>
      [] s = "w118"      -> <<"w", "1", "1", "8">>
      [] s = "UAS-W1118" -> <<"U", "A", "S", "-", "W", "1", "1", "1", "8">>
      [] s = "w1118;Trp" -> <<"w", "1", "1", "1", "8", ";", "T", "r", "p">>

(* str.lower() on the characters of the model.                             *)
lower(chars) ==
    [i \in DOMAIN chars |->
        CASE chars[i] = "W" -> "w"
          [] chars[i] = "T" -> "t"
          [] chars[i] = "U" -> "u"
          [] chars[i] = "A" -> "a"
          [] chars[i] = "S" -> "s"
          [] OTHER -> chars[i]]

(* needle in hay, for two strings.                                         *)
Contains(needle, hay) ==
    \E k \in 0..(Len(hay) - Len(needle)) : SubSeq(hay, k + 1, k + Len(needle)) = needle

(* assign_status_from_genotype comparing the genotype as it is written.    *)
assign_status_from_genotype_CaseSensitive(genotype) ==
    IF Contains(Chars("w1118"), Chars(genotype)) THEN "Sibling" ELSE "Offspring"

(* 'w1118' in genotype.lower()                                             *)
assign_status_from_genotype(genotype) ==
    IF Contains(Chars("w1118"), lower(Chars(genotype))) THEN "Sibling" ELSE "Offspring"

make_categorical_columns(df) ==
    [i \in DOMAIN df |-> df[i] @@ [Status |-> assign_status_from_genotype(df[i].Genotype)]]

(* pd.merge(allfeeds, allflies, left_on='FlyID', right_on='FlyID')         *)
merge(allfeeds, allflies) ==
    LET known == Filter(allfeeds, {i \in DOMAIN allfeeds :
                                      allfeeds[i].ChamberID \in Unique(allflies, "ChamberID")})
    IN [i \in DOMAIN known |->
           LET fly == allflies[CHOOSE j \in DOMAIN allflies :
                                   allflies[j].ChamberID = known[i].ChamberID]
           IN known[i] @@ fly]

(* The volume of the chamber, not divided by the flies in it.              *)
average_feed_vol_per_fly_Undivided(df) ==
    [i \in DOMAIN df |-> Assign(df[i], [AverageFeedVolumePerFly_ul |-> df[i].FeedVol_ul])]

average_feed_vol_per_fly(df) ==
    [i \in DOMAIN df |->
        Assign(df[i], [AverageFeedVolumePerFly_ul |->
                          FDiv(df[i].FeedVol_ul, ToFloat(df[i].FlyCountInChamber))])]

average_feed_count_per_fly(df) ==
    [i \in DOMAIN df |->
        Assign(df[i], [AverageFeedCountPerFly |->
                          FDiv(IF df[i].Valid THEN ToFloat(1) ELSE 0,
                               ToFloat(df[i].FlyCountInChamber))])]

average_feed_speed_per_fly(df) ==
    [i \in DOMAIN df |->
        Assign(df[i], [AverageFeedSpeedPerFly_ul_s |->
                          FDiv(FDiv(df[i].FeedVol_ul, FDiv(df[i].FeedDuration_ms, ToFloat(1000))),
                               ToFloat(df[i].FlyCountInChamber))])]

(* espresso.__init__ after the padding: lines 107 to 173.                  *)
allflies_of(metadata_list, non_feeding) ==
    LET fixed == [i \in DOMAIN metadata_list |->
                     [metadata_list[i] EXCEPT !.Genotype = GenotypeFix(@)]]
        cat == make_categorical_columns(fixed)
    IN [i \in DOMAIN cat |->
           cat[i] @@ [AtLeastOneFeed |-> cat[i].ChamberID \notin non_feeding]]

allfeeds_of(metadata_list, feedlogs_list, non_feeding) ==
    LET cols == compute_time_cols(compute_nanoliter_cols(feedlogs_list))
        assigned == [i \in DOMAIN cols |->
                        cols[i] @@ [FoodChoice |->
                            assign_food_choice(cols[i].ChamberID, cols[i].ChoiceIdx + 1,
                                               metadata_list)]]
        kept == drop_unassigned(assigned)
        fixed == [i \in DOMAIN metadata_list |->
                     [metadata_list[i] EXCEPT !.Genotype = GenotypeFix(@)]]
        merged == merge(kept, make_categorical_columns(fixed))
        annotated == average_feed_speed_per_fly(
                         average_feed_count_per_fly(
                             average_feed_vol_per_fly(merged)))
    IN SortByKey(annotated,
                 [i \in DOMAIN annotated |->
                     <<annotated[i].ChamberID, annotated[i].RelativeTime_s>>])

-----------------------------------------------------------------------------
(* groupby.                                                                *)

(* The strings of the loaded tables in the order sort_values gives them.   *)
AsciiOrder ==
    << " 5% yeast extract", "5% sucrose ", "FEED", "NaN", "Offspring", "PAD",
       "Sibling", "Trp", "clip.avi", "w1118", "water" >>

Rank(c, v) ==
    IF c \in StrCols THEN CHOOSE k \in DOMAIN AsciiOrder : AsciiOrder[k] = v ELSE v

KeyOf(r, gby) == [k \in DOMAIN gby |-> r[gby[k]]]

KeyRank(r, gby) == [k \in DOMAIN gby |-> Rank(gby[k], r[gby[k]])]

KeyHasNa(r, gby) == \E k \in DOMAIN gby : r[gby[k]] = Null(gby[k])

sort_values(df, by) == SortByKey(df, [i \in DOMAIN df |-> KeyRank(df[i], by)])

(* df.groupby(gby): one row of each group (its first), the groups in the   *)
(* order of their keys; rows with a null key are in no group.              *)
Groups(df, gby) ==
    LET ok == {i \in DOMAIN df : ~KeyHasNa(df[i], gby)}
        firsts == {i \in ok : \A j \in ok : j < i => KeyOf(df[j], gby) # KeyOf(df[i], gby)}
    IN sort_values(Filter(df, firsts), gby)

GroupRows(df, gby, rep) ==
    Filter(df, {i \in DOMAIN df : /\ ~KeyHasNa(df[i], gby)
                                  /\ KeyOf(df[i], gby) = KeyOf(rep, gby)})

SeqToSet(s) == {s[i] : i \in DOMAIN s}

-----------------------------------------------------------------------------
(* contrast_plot_munger, with group_by a column name.                      *)

SumCols == {"FeedDuration_ms", "AverageFeedVolumePerFly_ul",
            "AverageFeedCountPerFly", "AverageFeedSpeedPerFly_ul_s"}

(* Lines 592 to 595: the feeds strictly inside the window.                 *)
select_in_window(df, start_hour, end_hour) ==
    Filter(df, {i \in DOMAIN df :
                   /\ FLt(ToFloat(start_hour * 3600), df[i].RelativeTime_s)
                   /\ FLt(df[i].RelativeTime_s, ToFloat(end_hour * 3600))})

(* Lines 606 to 613 and 618 to 619: the pad row of a chamber with no feed  *)
(* in the window.                                                          *)
contrast_padrow(df, flies_, gby, chamberid, choice) ==
    LET fly == flies_[CHOOSE i \in DOMAIN flies_ : flies_[i].ChamberID = chamberid]
    IN [c \in Columns(df) |->
           CASE c = "FoodChoice" -> choice
             [] c = "ChamberID" -> chamberid
             [] c = "ExperimentState" -> "PAD"
             [] c \in {"AverageFeedVolumePerFly_ul", "AverageFeedCountPerFly"} -> 0
             [] c \in SeqToSet(gby) /\ c \in Columns(flies_) -> fly[c]
             [] c = "Valid" -> NaNStr
             [] OTHER -> Null(c)]

(* contrast_plot_munger without its lines 597 to 620.                      *)
contrast_padrows_None(df, df_in_window, flies_, gby) == <<>>

(* Lines 599 to 614.                                                       *)
contrast_padrows(df, df_in_window, flies_, gby) ==
    LET chambers == Ascending(Unique(flies_, "ChamberID"))
        inactive == Filter(chambers, {i \in DOMAIN chambers :
                                         chambers[i] \notin Unique(df_in_window, "ChamberID")})
        choices == Column(Groups(df, <<"FoodChoice">>), "FoodChoice")
    IN Flatten([i \in DOMAIN inactive |->
           [j \in DOMAIN choices |-> contrast_padrow(df, flies_, gby, inactive[i], choices[j])]])

(* Lines 623 to 642: the sums and the minimum of each group, merged.       *)
grouped(df_in_window_padded, gby) ==
    LET reps == Groups(df_in_window_padded, gby)
        nonNull == dropna(df_in_window_padded)
    IN [g \in DOMAIN reps |->
           LET rows == GroupRows(df_in_window_padded, gby, reps[g])
               mins == GroupRows(nonNull, gby, reps[g])
           IN [c \in SeqToSet(gby) \cup SumCols \cup {"RelativeTime_s"} |->
                  CASE c \in SeqToSet(gby) -> reps[g][c]
                    [] c \in SumCols -> SumSkipNa(Column(rows, c))
                    [] OTHER -> MinSkipNa(Column(mins, "RelativeTime_s"))]]

(* Lines 644 to 678: a row for every (chamber, food choice) of the feeds   *)
(* that the window left out.                                               *)
fill_missing_combis(df, plotdf, gby) ==
    LET Combis(t) == {<<t[i].ChamberID, t[i].FoodChoice>> : i \in DOMAIN t}
        missing == Combis(df) \ Combis(plotdf)
        order == Groups(Filter(df, {i \in DOMAIN df :
                                      <<df[i].ChamberID, df[i].FoodChoice>> \in missing}),
                        <<"ChamberID", "FoodChoice">>)
        missing_rows ==
            Flatten([m \in DOMAIN order |->
                LET temp_row == Filter(plotdf, {i \in DOMAIN plotdf :
                                                   plotdf[i].ChamberID = order[m].ChamberID})
                IN [i \in DOMAIN temp_row |->
                       [c \in DOMAIN temp_row[i] |->
                           CASE c = "FoodChoice" -> order[m].FoodChoice
                             [] c \in {"AverageFeedVolumePerFly_ul", "AverageFeedCountPerFly",
                                       "FeedDuration_ms"} -> 0
                             [] c \in {"RelativeTime_s", "AverageFeedSpeedPerFly_ul_s"} -> NaN
                             [] OTHER -> temp_row[i][c]]]])
    IN IF "FoodChoice" \in SeqToSet(gby) /\ missing_rows # <<>>
       THEN sort_values(plotdf \o missing_rows, gby)
       ELSE plotdf

(* Lines 485 to 523, for one row and columns of strings: the values of the *)
(* columns joined with the default separator '; '.                         *)
RECURSIVE join_cols(_, _)
join_cols(r, cols) ==
    IF Len(cols) = 1 THEN r[cols[1]]
    ELSE join_cols(r, SubSeq(cols, 1, Len(cols) - 1)) \o "; " \o r[cols[Len(cols)]]

(* Series.unique(): the distinct values in the order of their first        *)
(* appearance.                                                             *)
unique(s) == Filter(s, {i \in DOMAIN s : \A j \in 1..(i - 1) : s[j] # s[i]})

(* Lines 527 to 552 for a group_by that is a column: the two columns       *)
(* plot_groups and plot_groups_with_contrast.                              *)
cat_categorical_columns(df, group_by, compare_by) ==
    [i \in DOMAIN df |->
        Assign(df[i], [plot_groups |-> df[i][group_by],
                       plot_groups_with_contrast |->
                           join_cols(df[i], <<group_by, compare_by>>)])]

(* Lines 535 to 545 for a group_by that is a list of columns.              *)
cat_categorical_columns_list(df, group_by, compare_by) ==
    [i \in DOMAIN df |->
        LET joined == Assign(df[i], [plot_groups |-> join_cols(df[i], group_by)])
        IN Assign(joined, [plot_groups_with_contrast |->
                               join_cols(joined, <<"plot_groups", compare_by>>)])]

(* Lines 546 to 550: the categories of plot_groups_with_contrast, in the   *)
(* order of the rows of the table.                                         *)
sorted_plot_groups(df_out) == unique(Column(df_out, "plot_groups_with_contrast"))

(* contrast_raises without the count of the categories of compare_by.      *)
contrast_raises_AnyCount(df, group_by, compare_by, color_by) ==
    \/ group_by = compare_by
    \/ \E c \in {compare_by, color_by, group_by} : c \notin Columns(df)

(* Lines 570 to 589: the calls that raise.                                 *)
contrast_raises(df, group_by, compare_by, color_by) ==
    \/ group_by = compare_by
    \/ \E c \in {compare_by, color_by, group_by} : c \notin Columns(df)
    \/ Cardinality(Unique(df, compare_by)) < 2

contrast_plot_munger(feeds_, flies_, group_by, compare_by, color_by, start_hour, end_hour) ==
    LET df == feeds_
        gby == <<"ChamberID", compare_by, color_by, group_by>>
        df_in_window == select_in_window(df, start_hour, end_hour)
        df_in_window_padded == df_in_window \o contrast_padrows(df, df_in_window, flies_, gby)
    IN cat_categorical_columns(fill_missing_combis(df, grouped(df_in_window_padded, gby), gby),
                               group_by, compare_by)

-----------------------------------------------------------------------------
(* munger.groupby_resamp_sum, sum_for_timecourse and cumsum_for_cumulative.*)

NaT == [s |-> NaN, frac |-> NaN]

(* to_datetime(unit='s'): the whole seconds since the epoch and the tenths *)
(* of a second left over.                                                  *)
to_datetime(x) == IF x = NaN THEN NaT ELSE [s |-> x \div FP, frac |-> x % FP]

AsDatetime(df) == [i \in DOMAIN df |-> [df[i] EXCEPT !.RelativeTime_s = to_datetime(@)]]

(* The left edge, in seconds, of the bin of resample_by minutes that holds *)
(* the time stamp.                                                         *)
BinEdge(stamp, resample_by) == (stamp.s \div (resample_by * 60)) * (resample_by * 60)

(* sum() of a bin that holds nothing is NaN (min_count = 1).               *)
BinSum_NaNWhenEmpty(rows, c) == IF rows = <<>> THEN NaN ELSE SumSkipNa(Column(rows, c))

(* Line 370, sum(): NaN cells are skipped and a bin that holds nothing     *)
(* sums to 0.                                                              *)
BinSum(rows, c) == SumSkipNa(Column(rows, c))

(* Lines 368 to 370 for the rows of one group: a row for every bin from    *)
(* the bin of its first row to the bin of its last.                        *)
resample_sum(rows, gbp_cols, resample_by) ==
    LET step == resample_by * 60
        edge(i) == BinEdge(rows[i].RelativeTime_s, resample_by)
        lo == CHOOSE e \in {edge(i) : i \in DOMAIN rows} : \A i \in DOMAIN rows : e <= edge(i)
        hi == CHOOSE e \in {edge(i) : i \in DOMAIN rows} : \A i \in DOMAIN rows : e >= edge(i)
    IN [k \in 1..((hi - lo) \div step + 1) |->
           LET inbin == Filter(rows, {i \in DOMAIN rows : edge(i) = lo + (k - 1) * step})
           IN [c \in SeqToSet(gbp_cols) |-> rows[1][c]]
              @@ [RelativeTime_s |-> [s |-> lo + (k - 1) * step, frac |-> 0]]
              @@ [c \in SumCols |-> BinSum(inbin, c)]]

(* Lines 350 to 373; dtype is the dtype of RelativeTime_s in the table     *)
(* passed in, which lines 363 to 365 convert in place.  Of the summed      *)
(* columns the table keeps those that SumCols names.                       *)
groupby_resamp_sum(feeds_, dtype, group_by_cols, resample_by) ==
    LET converted == IF dtype = "float64" THEN AsDatetime(feeds_) ELSE feeds_
        gbp_cols == group_by_cols \o <<"ChamberID">>
        reps == Groups(converted, gbp_cols)
    IN Flatten([g \in DOMAIN reps |->
                   resample_sum(GroupRows(converted, gbp_cols, reps[g]), gbp_cols, resample_by)])

(* Lines 378 to 403; no bin of the resampled table is NaT.                 *)
sum_for_timecourse(resamp_feeds) ==
    [i \in DOMAIN resamp_feeds |->
        [c \in {"ChamberID", "RelativeTime_s", "AverageFeedVolumePerFly_ul",
                "AverageFeedCountPerFly", "AverageFeedSpeedPerFly_ul_s"} |->
            IF c # "RelativeTime_s" /\ resamp_feeds[i][c] = NaN THEN 0 ELSE resamp_feeds[i][c]]]

(* Lines 191 to 199.                                                       *)
add_time_column(df) ==
    [i \in DOMAIN df |->
        LET rt == df[i].RelativeTime_s
        IN df[i] @@ [time_s |-> ((rt.s \div 3600) % 24) * 3600 + ((rt.s \div 60) % 60) * 60
                                + (rt.s % 60)]]

(* The sum of the rows from this one to the last of its group.             *)
groupby_cumsum_FromEnd(df, by, c) ==
    [i \in DOMAIN df |->
        SumSkipNa(Column(Filter(df, {j \in i..Len(df) : df[j][by] = df[i][by]}), c))]

(* Line 454, groupby(by).cumsum(): the sum of the rows of the group up to  *)
(* this one, in the order of the table.                                    *)
groupby_cumsum(df, by, c) ==
    [i \in DOMAIN df |->
        SumSkipNa(Column(Filter(df, {j \in 1..i : df[j][by] = df[i][by]}), c))]

(* Lines 429 to 464.                                                       *)
cumsum_for_cumulative(df, group_by_cols) ==
    LET count == groupby_cumsum(df, "ChamberID", "AverageFeedCountPerFly")
        volume == groupby_cumsum(df, "ChamberID", "AverageFeedVolumePerFly_ul")
        out == [i \in DOMAIN df |->
                   [c \in SeqToSet(group_by_cols) \cup {"RelativeTime_s", "ChamberID"} |-> df[i][c]]
                   @@ [Cumulative_Feed_Count |-> count[i], Cumulative_Volume_ul |-> volume[i]]]
    IN add_time_column(out)

-----------------------------------------------------------------------------
(* The load, one FeedLog/MetaData pair: espresso.__init__.                 *)

NoResult == [op |-> "none"]

Init ==
    /\ pc = "start"
    /\ metadata_csv \in MetadataInputs
    /\ feedlog_csv \in FeedlogInputs
    /\ non_feeding_flies = {}
    /\ flies = <<>>
    /\ feeds = <<>>
    /\ cumulative_dtype = "float64"
    /\ result = NoResult
    /\ expts = <<>>
    /\ lists = <<>>

(* Lines 80 to 96: the MetaData CSV is munged, then the FeedLog CSV; an    *)
(* exception of either leaves __init__, and there is no experiment.        *)
MungeCsv ==
    /\ pc = "start"
    /\ LET error == IF metadata_raises(metadata_csv) # "none"
                    THEN metadata_raises(metadata_csv)
                    ELSE feedlog_raises(feedlog_csv)
       IN IF error # "none"
          THEN /\ pc' = "aborted"
               /\ result' = [op |-> "espresso", error |-> error]
               /\ UNCHANGED <<metadata_csv, feedlog_csv>>
          ELSE /\ pc' = "munged"
               /\ metadata_csv' = [i \in DOMAIN metadata_csv |->
                                      metadata(metadata_csv)[i]
                                          @@ [ChamberID |-> metadata_csv[i].ID]]
               /\ feedlog_csv' = feedlog(feedlog_csv)
               /\ UNCHANGED result
    /\ UNCHANGED <<non_feeding_flies, flies, feeds, cumulative_dtype>>
    /\ UNCHANGED <<expts, lists>>

(* The detection made on the log once add_padrows has padded it.           *)
DetectNonFeedingFlies_OnPaddedLog ==
    /\ pc = "munged"
    /\ pc' = "detected"
    /\ feedlog_csv' = add_padrows(metadata_csv, feedlog_csv,
                                  ToFloat(expt_duration_minutes * 60), 0)
    /\ non_feeding_flies' = detect_non_feeding_flies(metadata_csv, feedlog_csv')
    /\ UNCHANGED <<metadata_csv, flies, feeds, cumulative_dtype, result>>
    /\ UNCHANGED <<expts, lists>>

(* Lines 98 to 100.                                                        *)
DetectNonFeedingFlies ==
    /\ pc = "munged"
    /\ pc' = "detected"
    /\ non_feeding_flies' = detect_non_feeding_flies(metadata_csv, feedlog_csv)
    /\ UNCHANGED <<metadata_csv, feedlog_csv, flies, feeds, cumulative_dtype, result>>
    /\ UNCHANGED <<expts, lists>>

(* Lines 102 to 106.  DataFrame.append of an empty list of pad rows raises *)
(* IndexError in pandas 0.24 and 0.25 and returns the frame as it is from  *)
(* pandas 1.0 on; setup.py asks for pandas >= 0.24.                        *)
AddPadrows ==
    /\ pc = "detected"
    /\ LET pads == all_padrows(metadata_csv, feedlog_csv,
                               ToFloat(expt_duration_minutes * 60), 0)
       IN \/ /\ pc' = "padded"
             /\ feedlog_csv' = add_padrows(metadata_csv, feedlog_csv,
                                           ToFloat(expt_duration_minutes * 60), 0)
             /\ UNCHANGED result
          \/ /\ pads = <<>>
             /\ pc' = "aborted"
             /\ result' = [op |-> "espresso", error |-> "IndexError"]
             /\ UNCHANGED feedlog_csv
    /\ UNCHANGED <<metadata_csv, non_feeding_flies, flies, feeds, cumulative_dtype>>
    /\ UNCHANGED <<expts, lists>>

(* Lines 107 to 190.                                                       *)
MergeAndAnnotate ==
    /\ pc = "padded"
    /\ pc' = "loaded"
    /\ flies' = allflies_of(metadata_csv, non_feeding_flies)
    /\ feeds' = allfeeds_of(metadata_csv, feedlog_csv, non_feeding_flies)
    /\ UNCHANGED <<metadata_csv, feedlog_csv, non_feeding_flies, cumulative_dtype, result>>
    /\ UNCHANGED <<expts, lists>>

(* The arguments of the calls on the loaded experiment.                    *)
GroupCols == {"Genotype", "Status", "FoodChoice"}

ContrastArgs ==
    { a \in [group_by : GroupCols, compare_by : GroupCols, color_by : GroupCols,
             start_hour : {0, 1}, end_hour : {1, 2}] :
        /\ a.end_hour = a.start_hour + 1
        /\ a.color_by \notin {a.group_by, a.compare_by}
        /\ a.color_by = "Status" \/ a.compare_by = "FoodChoice" }

(* A contrast table is asked for: contrast_plot_munger on the plotter's    *)
(* copy of the feeds (contrast.py, line 28) and the flies.                 *)
ContrastPlot ==
    /\ pc = "loaded"
    /\ result = NoResult
    /\ \E a \in ContrastArgs :
           result' = [op |-> "contrast", args |-> a,
                      raised |-> contrast_raises(feeds, a.group_by, a.compare_by, a.color_by),
                      plotdf |-> IF contrast_raises(feeds, a.group_by, a.compare_by, a.color_by)
                                 THEN <<>>
                                 ELSE contrast_plot_munger(feeds, flies, a.group_by, a.compare_by,
                                                           a.color_by, a.start_hour, a.end_hour)]
    /\ UNCHANGED <<pc, metadata_csv, feedlog_csv, non_feeding_flies, flies, feeds, cumulative_dtype>>
    /\ UNCHANGED <<expts, lists>>

(* The arguments of the resampling calls: the grouping columns and the bin *)
(* width in minutes ('10min', '30min').                                    *)
ResampleArgs == [group_by_cols : {<<"Genotype">>, <<"FoodChoice">>}, resample_by : {10, 30}]

(* A time course of the feeds of the experiment, resampled on a copy of    *)
(* the table (timecourse.py, line 50).                                     *)
Timecourse ==
    /\ pc = "loaded"
    /\ result = NoResult
    /\ feeds # <<>>
    /\ \E a \in ResampleArgs :
           LET resamp_feeds == groupby_resamp_sum(feeds, "float64", a.group_by_cols, a.resample_by)
           IN result' = [op |-> "timecourse", args |-> a, resamp_feeds |-> resamp_feeds,
                         plotdf |-> sum_for_timecourse(resamp_feeds)]
    /\ UNCHANGED <<pc, metadata_csv, feedlog_csv, non_feeding_flies, flies, feeds, cumulative_dtype>>
    /\ UNCHANGED <<expts, lists>>

(* The cumulative table, resampled on the table the cumulative plotter     *)
(* copied when it was made (cumulative.py, lines 19 and 43), whose         *)
(* RelativeTime_s is a datetime from the first call on.                    *)
Cumulative ==
    /\ pc = "loaded"
    /\ result = NoResult
    /\ feeds # <<>>
    /\ \E a \in ResampleArgs :
           LET own == IF cumulative_dtype = "float64" THEN feeds ELSE AsDatetime(feeds)
               resamp_feeds == groupby_resamp_sum(own, cumulative_dtype, a.group_by_cols,
                                                  a.resample_by)
           IN result' = [op |-> "cumulative", args |-> a, resamp_feeds |-> resamp_feeds,
                         plotdf |-> cumsum_for_cumulative(resamp_feeds, a.group_by_cols)]
    /\ cumulative_dtype' = "datetime64"
    /\ UNCHANGED <<pc, metadata_csv, feedlog_csv, non_feeding_flies, flies, feeds>>
    /\ UNCHANGED <<expts, lists>>

(* The caller is done with the table it was returned.                     *)
Discard ==
    /\ pc = "loaded"
    /\ result # NoResult
    /\ result' = NoResult
    /\ UNCHANGED <<pc, metadata_csv, feedlog_csv, non_feeding_flies, flies, feeds, cumulative_dtype>>
    /\ UNCHANGED <<expts, lists>>

Next ==
    \/ MungeCsv
    \/ DetectNonFeedingFlies
    \/ AddPadrows
    \/ MergeAndAnnotate
    \/ ContrastPlot
    \/ Timecourse
    \/ Cumulative
    \/ Discard

Spec == Init /\ [][Next]_vars

-----------------------------------------------------------------------------
(* Properties of the padding and of the loaded experiment.                 *)

time_start == 0

time_end == ToFloat(expt_duration_minutes * 60)

PairsIn(df, choicecol) == {<<df[i].ChamberID, df[i][choicecol]>> : i \in DOMAIN df}

RowsOf(df, choicecol, pair) ==
    Filter(df, {i \in DOMAIN df : <<df[i].ChamberID, df[i][choicecol]>> = pair})

IsPad(r) == r.ExperimentState = "PAD"

Spans(rows, from, to) ==
    /\ Len(rows) >= 2
    /\ \E i \in DOMAIN rows : ~FLt(from, rows[i].RelativeTime_s) /\ rows[i].RelativeTime_s # NaN
    /\ \E i \in DOMAIN rows : ~FLt(rows[i].RelativeTime_s, to) /\ rows[i].RelativeTime_s # NaN

C2_MergedPairsKeepPadRows ==
    pc = "loaded" =>
        \A pair \in PairsIn(feeds, "FoodChoice") :
            LET rows == RowsOf(feeds, "FoodChoice", pair)
                pads == Filter(rows, {i \in DOMAIN rows : IsPad(rows[i])})
            IN Spans(pads, time_start + FP \div 2, time_end)

AddedRows(old, new) == SubSeq(new, Len(old) + 1, Len(new))

CountRows(df, P(_)) == Cardinality({i \in DOMAIN df : P(df[i])})

C4_NonFeedersHaveNoRealRows ==
    pc = "loaded" =>
        \A i \in DOMAIN flies :
            ~flies[i].AtLeastOneFeed =>
                \A j \in DOMAIN feeds :
                    feeds[j].ChamberID = flies[i].ChamberID => IsPad(feeds[j])

(* A loaded experiment with a fly flagged as not feeding although the log  *)
(* has a (null-bearing) recorded row for it, and another fly that fed.     *)
C4_Witness ==
    /\ pc = "loaded"
    /\ \E i \in DOMAIN flies :
           /\ ~flies[i].AtLeastOneFeed
           /\ \E j \in DOMAIN feedlog_csv :
                  /\ feedlog_csv[j].ChamberID = flies[i].ChamberID
                  /\ ~IsPad(feedlog_csv[j])
    /\ \E i \in DOMAIN flies :
           /\ flies[i].AtLeastOneFeed
           /\ \E j \in DOMAIN feeds : feeds[j].ChamberID = flies[i].ChamberID

-----------------------------------------------------------------------------
(* Properties of the contrast table.                                       *)

ContrastDone == result.op = "contrast" /\ ~result.raised

(* The recorded feeds of a chamber strictly inside the window of the call. *)
RealInWindow(chamberid, start_hour, end_hour) ==
    LET w == select_in_window(feeds, start_hour, end_hour)
    IN Filter(w, {i \in DOMAIN w : w[i].ChamberID = chamberid /\ ~IsPad(w[i])})

RealRows(df, chamberid) ==
    Filter(df, {i \in DOMAIN df : df[i].ChamberID = chamberid /\ ~IsPad(df[i])})

SubjectRows(plotdf, chamberid) ==
    Filter(plotdf, {i \in DOMAIN plotdf : plotdf[i].ChamberID = chamberid})

C6_LatencyIsFirstRealFeed ==
    ContrastDone =>
        LET a == result.args
            gby == <<"ChamberID", a.compare_by, a.color_by, a.group_by>>
            w == select_in_window(feeds, a.start_hour, a.end_hour)
            real == Filter(w, {i \in DOMAIN w : ~IsPad(w[i])})
        IN \A i \in DOMAIN result.plotdf :
               LET evs == GroupRows(real, gby, result.plotdf[i])
               IN evs # <<>> =>
                      result.plotdf[i].RelativeTime_s = MinSkipNa(Column(evs, "RelativeTime_s"))

SubjectTotal(plotdf, chamberid) ==
    SumSkipNa(Column(SubjectRows(plotdf, chamberid), "AverageFeedVolumePerFly_ul"))

PerFly(rows) ==
    [i \in DOMAIN rows |-> FDiv(rows[i].FeedVol_ul, ToFloat(rows[i].FlyCountInChamber))]

FullWindow ==
    /\ ContrastDone
    /\ result.args.start_hour = 0
    /\ result.args.end_hour * 60 = expt_duration_minutes

-----------------------------------------------------------------------------
(* Properties of the resampled tables.                                     *)

Metrics == {"AverageFeedVolumePerFly_ul", "AverageFeedCountPerFly",
            "AverageFeedSpeedPerFly_ul_s"}

(* The recorded feeds of the group of the row rep (its grouping columns    *)
(* and its fly) whose elapsed time is in the bin of `minutes` minutes that *)
(* starts at second `edge`.                                                *)
FeedsInBin(rep, gbp_cols, edge, minutes) ==
    LET mine == GroupRows(feeds, gbp_cols, rep)
    IN Filter(mine, {i \in DOMAIN mine :
                        /\ ~IsPad(mine[i])
                        /\ ToFloat(edge) <= mine[i].RelativeTime_s
                        /\ mine[i].RelativeTime_s < ToFloat(edge + minutes * 60)})

(* The seconds at which the bins start, from the bin of the first feed of  *)
(* the group of rep to the bin of its last.                                *)
EdgesOf(rep, gbp_cols, minutes) ==
    LET mine == GroupRows(feeds, gbp_cols, rep)
        secs == {mine[i].RelativeTime_s \div FP : i \in DOMAIN mine}
        first == CHOOSE t \in secs : \A u \in secs : t <= u
        last == CHOOSE t \in secs : \A u \in secs : t >= u
    IN {k * minutes * 60 : k \in (first \div (minutes * 60))..(last \div (minutes * 60))}

RowsAt(df, rep, gbp_cols, edge) ==
    {i \in DOMAIN df : /\ KeyOf(df[i], gbp_cols) = KeyOf(rep, gbp_cols)
                       /\ df[i].RelativeTime_s.s = edge}

(* C8: in the resampled table and in the time course made of it, every     *)
(* group (grouping columns and fly) has exactly one row for every bin from *)
(* the bin of its first feed to the bin of its last, and in a bin with no  *)
(* recorded feed of the group every summed metric is 0 (not NaN).          *)
C8_EmptyBinsSumToZero ==
    result.op = "timecourse" =>
        LET gbp_cols == result.args.group_by_cols \o <<"ChamberID">>
            reps == Groups(feeds, gbp_cols)
        IN /\ Len(result.plotdf) = Len(result.resamp_feeds)
           /\ \A g \in DOMAIN reps :
                  \A edge \in EdgesOf(reps[g], gbp_cols, result.args.resample_by) :
                      LET at == RowsAt(result.resamp_feeds, reps[g], gbp_cols, edge)
                      IN /\ Cardinality(at) = 1
                         /\ FeedsInBin(reps[g], gbp_cols, edge, result.args.resample_by) = <<>> =>
                                \A i \in at : \A c \in Metrics :
                                    /\ result.resamp_feeds[i][c] = 0
                                    /\ result.plotdf[i][c] = 0
                                    /\ result.plotdf[i].ChamberID = reps[g].ChamberID
                                    /\ result.plotdf[i].RelativeTime_s.s = edge

(* A time course in bins of 10 minutes of a fly that fed at 900 s and at   *)
(* 3700 s: of its bins from 600 s to 3600 s four hold no feed.             *)
C8_Witness ==
    /\ result.op = "timecourse"
    /\ result.args.resample_by = 10
    /\ \E i, j \in DOMAIN result.plotdf :
           /\ result.plotdf[i].ChamberID = result.plotdf[j].ChamberID
           /\ result.plotdf[i].RelativeTime_s.s = 600
           /\ result.plotdf[j].RelativeTime_s.s = 3600
           /\ j = i + 5
           /\ result.plotdf[i].AverageFeedVolumePerFly_ul > 0
           /\ result.plotdf[j].AverageFeedVolumePerFly_ul > 0
           /\ \A k \in (i + 1)..(j - 1) : result.plotdf[k].AverageFeedVolumePerFly_ul = 0

VolumesNonNegative == \A i \in DOMAIN feeds : feeds[i].FeedVol_ul >= 0

SameSeries(r, q, gbp_cols) == KeyOf(r, gbp_cols) = KeyOf(q, gbp_cols)

(* C9: when no recorded volume is negative, the cumulative volume of every *)
(* (grouping columns, fly) series of the cumulative table does not         *)
(* decrease as the bins advance.                                           *)
C9_CumulativeVolumeNonDecreasing ==
    (result.op = "cumulative" /\ VolumesNonNegative) =>
        LET gbp_cols == result.args.group_by_cols \o <<"ChamberID">>
            df == result.plotdf
        IN \A i, j \in DOMAIN df :
               (SameSeries(df[i], df[j], gbp_cols)
                    /\ df[i].RelativeTime_s.s <= df[j].RelativeTime_s.s) =>
                   df[i].Cumulative_Volume_ul <= df[j].Cumulative_Volume_ul

(* A series that rises twice: a fly that fed in two bins.                  *)
C9_Witness ==
    /\ result.op = "cumulative"
    /\ VolumesNonNegative
    /\ \E i, j \in DOMAIN result.plotdf :
           /\ SameSeries(result.plotdf[i], result.plotdf[j],
                         result.args.group_by_cols \o <<"ChamberID">>)
           /\ result.plotdf[i].RelativeTime_s.s < result.plotdf[j].RelativeTime_s.s
           /\ 0 < result.plotdf[i].Cumulative_Volume_ul
           /\ result.plotdf[i].Cumulative_Volume_ul < result.plotdf[j].Cumulative_Volume_ul

(* C10, as claimed: in the first bin of every (grouping columns, fly)      *)
(* series of the cumulative table the cumulative volume and count are the  *)
(* sums of that bin alone.                                                 *)
C10_RunningSumPerGroupAndSubject ==
    result.op = "cumulative" =>
        LET gbp_cols == result.args.group_by_cols \o <<"ChamberID">>
            df == result.plotdf
        IN \A i \in DOMAIN df :
               (\A j \in DOMAIN df :
                    SameSeries(df[i], df[j], gbp_cols) =>
                        df[i].RelativeTime_s.s <= df[j].RelativeTime_s.s) =>
                   /\ df[i].Cumulative_Volume_ul =
                          result.resamp_feeds[i].AverageFeedVolumePerFly_ul
                   /\ df[i].Cumulative_Feed_Count =
                          result.resamp_feeds[i].AverageFeedCountPerFly

-----------------------------------------------------------------------------
(* The metric calculator on its own: the four functions that add the       *)
(* derived columns, applied to a merged table and then to their own        *)
(* output.                                                                 *)

(* A row of a merged table before its derived columns are computed: a      *)
(* volume (ul), a duration (ms), the flies in the chamber, Valid.          *)
MergedRows ==
    [ChamberID : {1}, FeedVol_ul : {0, ToFloat(10), ToFloat(20), NaN},
     FeedDuration_ms : {0, ToFloat(1000), NaN}, FlyCountInChamber : {1, 2},
     Valid : BOOLEAN]

MergedInputs == UNION { [1..n -> MergedRows] : n \in 1..MaxFeeds }

(* espresso.__init__, lines 108 and 155 to 161.                            *)
metric_calculator(df) ==
    average_feed_speed_per_fly(
        average_feed_count_per_fly(
            average_feed_vol_per_fly(compute_nanoliter_cols(df))))

MetricInit ==
    /\ pc = "merged"
    /\ feeds \in MergedInputs
    /\ metadata_csv = <<>>
    /\ feedlog_csv = <<>>
    /\ non_feeding_flies = {}
    /\ flies = <<>>
    /\ cumulative_dtype = "float64"
    /\ result = NoResult
    /\ expts = <<>>
    /\ lists = <<>>

MetricCalculator ==
    /\ pc = "merged"
    /\ pc' = "annotated"
    /\ feeds' = metric_calculator(feeds)
    /\ UNCHANGED <<metadata_csv, feedlog_csv, non_feeding_flies, flies, cumulative_dtype, result>>
    /\ UNCHANGED <<expts, lists>>

(* The calculator is applied to the annotated table; result keeps the      *)
(* table it was given.                                                     *)
MetricCalculatorAgain ==
    /\ pc = "annotated"
    /\ pc' = "annotated twice"
    /\ feeds' = metric_calculator(feeds)
    /\ result' = [op |-> "metric_calculator", given |-> feeds]
    /\ UNCHANGED <<metadata_csv, feedlog_csv, non_feeding_flies, flies, cumulative_dtype>>
    /\ UNCHANGED <<expts, lists>>

MetricNext == MetricCalculator \/ MetricCalculatorAgain

MetricSpec == MetricInit /\ [][MetricNext]_vars

(* C11: the metric calculator applied to a table it has already annotated  *)
(* returns that table: the same columns, and in every row the same value   *)
(* in every column.                                                        *)
C11_MetricCalculatorIdempotent ==
    pc = "annotated twice" =>
        /\ Len(feeds) = Len(result.given)
        /\ \A i \in DOMAIN feeds :
               /\ DOMAIN feeds[i] = DOMAIN result.given[i]
               /\ \A c \in DOMAIN feeds[i] : feeds[i][c] = result.given[i][c]

(* A table annotated twice that has a row with a volume shared by two      *)
(* flies and a row with a zero duration.                                   *)
C11_Witness ==
    /\ pc = "annotated twice"
    /\ \E i \in DOMAIN feeds :
           /\ feeds[i].FlyCountInChamber = 2
           /\ feeds[i].FeedVol_nl = ToFloat(20000)
           /\ feeds[i].AverageFeedVolumePerFly_ul = ToFloat(10)
           /\ feeds[i].AverageFeedSpeedPerFly_ul_s = ToFloat(10)
    /\ \E i \in DOMAIN feeds : feeds[i].FeedDuration_ms = 0

-----------------------------------------------------------------------------
(* Feeds of no duration.                                                   *)

(* Recorded feeds with a duration of 0 ms next to feeds of 1000 ms, and a  *)
(* row without a recording.                                                *)
ZeroDurationRows ==
    { FeedRow(fly, 0, "clip.avi", vol, dur, 900) :
        fly \in 0..(MaxFlies - 1), vol \in {0, 10}, dur \in {0, 1000} }
    \cup { FeedRow(0, 0, "Null", 10, 1000, 900) }

ZeroDurationInputs == UNION { [1..n -> ZeroDurationRows] : n \in 0..MaxFeeds }

ZeroDurationInit ==
    /\ pc = "start"
    /\ metadata_csv \in MetadataInputs
    /\ feedlog_csv \in ZeroDurationInputs
    /\ non_feeding_flies = {}
    /\ flies = <<>>
    /\ feeds = <<>>
    /\ cumulative_dtype = "float64"
    /\ result = NoResult
    /\ expts = <<>>
    /\ lists = <<>>

ZeroDurationSpec == ZeroDurationInit /\ [][Next]_vars

(* The speeds per fly of the feeds in rows that have a duration.           *)
DefinedSpeeds(rows) ==
    Column(Filter(rows, {i \in DOMAIN rows : rows[i].FeedDuration_ms # 0}),
           "AverageFeedSpeedPerFly_ul_s")

SpeedTotal(plotdf, chamberid) ==
    SumSkipNa(Column(SubjectRows(plotdf, chamberid), "AverageFeedSpeedPerFly_ul_s"))

(* C12: the speed of a feed of duration 0 is left out of every sum of      *)
(* speeds: for every fly, the summed speed of its rows in a contrast table *)
(* is the sum of the speeds of its feeds inside the window that have a     *)
(* duration, and the summed speed of its rows in a time course is the sum  *)
(* of the speeds of its feeds that have a duration.                        *)
C12_ZeroDurationSpeedLeftOutOfSums ==
    \A f \in DOMAIN flies :
        LET id == flies[f].ChamberID
        IN /\ ContrastDone =>
                  SpeedTotal(result.plotdf, id) =
                      SumSkipNa(DefinedSpeeds(RealInWindow(id, result.args.start_hour,
                                                           result.args.end_hour)))
           /\ result.op = "timecourse" =>
                  SpeedTotal(result.plotdf, id) = SumSkipNa(DefinedSpeeds(RealRows(feeds, id)))

-----------------------------------------------------------------------------
(* Calls on a loaded experiment with arguments that the functions reject.  *)

None == "None"

(* Lines 306 to 317, for a column name that is a string.                   *)
check_column(col, df) == IF col \notin Columns(df) THEN "KeyError" ELSE "none"

(* Lines 322 to 342: the exception the call raises, "none" when it         *)
(* returns.  The comparison of color_by with col and row (lines 332 to     *)
(* 335) is commented out in the source.                                    *)
check_group_by_color_by(col, row, color_by, df) ==
    LET not_none == {c \in {col, row, color_by} : c # None}
    IN IF \E c \in not_none : check_column(c, df) # "none" THEN "KeyError"
       ELSE IF col = row /\ col # None THEN "ValueError"
       ELSE "none"

(* Feeds of both flies on both foods inside the hour, and a row without a  *)
(* recording.                                                              *)
CallRows ==
    { FeedRow(fly, choice, "clip.avi", 10, 1000, 1800) :
        fly \in 0..(MaxFlies - 1), choice \in {0, 1} }
    \cup { FeedRow(0, 0, "Null", 10, 1000, 900) }

CallInputs == UNION { [1..n -> CallRows] : n \in 0..MaxFeeds }

CallInit ==
    /\ pc = "start"
    /\ metadata_csv \in MetadataInputs
    /\ feedlog_csv \in CallInputs
    /\ non_feeding_flies = {}
    /\ flies = <<>>
    /\ feeds = <<>>
    /\ cumulative_dtype = "float64"
    /\ result = NoResult
    /\ expts = <<>>
    /\ lists = <<>>

(* The experiment is loaded; a call on it may have failed since.           *)
LoadedPcs == {"loaded", "loaded, a call failed"}

(* The columns asked for in a role: none, a column of the flies, the food  *)
(* choice, a column the experiment does not have.                          *)
Roles == {None, "Genotype", "FoodChoice", "Temperature"}

(* The check that the plotters make of col, row and color_by before they   *)
(* aggregate (timecourse.py, line 54; espresso_plotter.py, line 196).      *)
CheckGroupByColorBy ==
    /\ pc \in LoadedPcs
    /\ result = NoResult
    /\ feeds # <<>>
    /\ \E col \in Roles, row \in Roles, color_by \in Roles :
           result' = [op |-> "check_group_by_color_by",
                      args |-> [col |-> col, row |-> row, color_by |-> color_by],
                      error |-> check_group_by_color_by(col, row, color_by, feeds)]
    /\ UNCHANGED <<pc, metadata_csv, feedlog_csv, non_feeding_flies, flies, feeds, cumulative_dtype>>
    /\ UNCHANGED <<expts, lists>>

(* C13: a call that names the same column in two of the roles col, row and *)
(* color_by raises, whichever the two roles are.                           *)
C13_SameColumnInTwoRolesRaises ==
    result.op = "check_group_by_color_by" =>
        LET a == result.args
        IN (\/ a.col # None /\ a.col = a.row
            \/ a.col # None /\ a.col = a.color_by
            \/ a.row # None /\ a.row = a.color_by) => result.error # "none"

(* Lines 576 to 589 for a group_by that is a list of columns.              *)
contrast_raises_list(df, group_by, compare_by, color_by) ==
    \/ compare_by \in SeqToSet(group_by)
    \/ \E c \in {compare_by, color_by} \cup SeqToSet(group_by) : c \notin Columns(df)
    \/ Cardinality(Unique(df, compare_by)) < 2

(* contrast_plot_munger for a group_by that is a list of columns (line     *)
(* 580).                                                                   *)
contrast_plot_munger_list(feeds_, flies_, group_by, compare_by, color_by, start_hour, end_hour) ==
    LET df == feeds_
        gby == <<"ChamberID", compare_by, color_by>> \o group_by
        df_in_window == select_in_window(df, start_hour, end_hour)
        df_in_window_padded == df_in_window \o contrast_padrows(df, df_in_window, flies_, gby)
    IN cat_categorical_columns_list(
           fill_missing_combis(df, grouped(df_in_window_padded, gby), gby),
           group_by, compare_by)

(* The arguments of a contrast call, group_by a column: those of           *)
(* ContrastArgs for the first hour, and the same with compare_by the       *)
(* column of group_by.                                                     *)
ContrastCallArgs ==
    { a \in [group_by : GroupCols, compare_by : GroupCols, color_by : GroupCols,
             start_hour : {0}, end_hour : {1}] :
        a.color_by \notin {a.group_by, a.compare_by} }

(* The arguments of a contrast call, group_by a list of one or two         *)
(* columns.                                                                *)
ContrastCallListArgs ==
    { a \in [group_by : {<<g>> : g \in GroupCols}
                        \cup {p \in GroupCols \X GroupCols : p[1] # p[2]},
             compare_by : GroupCols, color_by : GroupCols,
             start_hour : {0}, end_hour : {1}] :
        a.color_by \notin SeqToSet(a.group_by) \cup {a.compare_by} }

(* contrast_plot_munger is called with a column as group_by; it works on   *)
(* copies of the two tables (lines 566 and 567).                           *)
ContrastCall ==
    /\ pc \in LoadedPcs
    /\ result = NoResult
    /\ \E a \in ContrastCallArgs :
           LET raised == contrast_raises(feeds, a.group_by, a.compare_by, a.color_by)
           IN result' = [op |-> "contrast", args |-> a, raised |-> raised,
                         plotdf |-> IF raised THEN <<>>
                                    ELSE contrast_plot_munger(feeds, flies, a.group_by,
                                                              a.compare_by, a.color_by,
                                                              a.start_hour, a.end_hour)]
    /\ UNCHANGED <<pc, metadata_csv, feedlog_csv, non_feeding_flies, flies, feeds, cumulative_dtype>>
    /\ UNCHANGED <<expts, lists>>

(* contrast_plot_munger is called with a list of columns as group_by.      *)
ContrastCallList ==
    /\ pc \in LoadedPcs
    /\ result = NoResult
    /\ \E a \in ContrastCallListArgs :
           LET raised == contrast_raises_list(feeds, a.group_by, a.compare_by, a.color_by)
           IN result' = [op |-> "contrast list", args |-> a, raised |-> raised,
                         plotdf |-> IF raised THEN <<>>
                                    ELSE contrast_plot_munger_list(feeds, flies, a.group_by,
                                                                   a.compare_by, a.color_by,
                                                                   a.start_hour, a.end_hour)]
    /\ UNCHANGED <<pc, metadata_csv, feedlog_csv, non_feeding_flies, flies, feeds, cumulative_dtype>>
    /\ UNCHANGED <<expts, lists>>

(* The dtype of RelativeTime_s in the plotter's table when the call is     *)
(* over, had line 43 of cumulative.py come before the check of line 39.    *)
dtype_after_cumulative_ConvertedFirst(dtype, error) == "datetime64"

(* The dtype of RelativeTime_s in the plotter's table when the call is     *)
(* over: the check of line 39 raises before groupby_resamp_sum (line 43)   *)
(* converts the column.                                                    *)
dtype_after_cumulative(dtype, error) == IF error # "none" THEN dtype ELSE "datetime64"

(* A cumulative table is asked for with col, row and color_by: the check,  *)
(* then the resampling and the running sums (cumulative.py, lines 39 to    *)
(* 44).                                                                    *)
CumulativeCall ==
    /\ pc \in LoadedPcs
    /\ result = NoResult
    /\ feeds # <<>>
    /\ \E col \in Roles, row \in Roles, color_by \in Roles, a \in ResampleArgs :
           LET error == check_group_by_color_by(col, row, color_by, feeds)
               own == IF cumulative_dtype = "float64" THEN feeds ELSE AsDatetime(feeds)
               resamp_feeds == groupby_resamp_sum(own, cumulative_dtype, a.group_by_cols,
                                                  a.resample_by)
           IN /\ result' = [op |-> "cumulative", error |-> error,
                            args |-> [col |-> col, row |-> row, color_by |-> color_by] @@ a,
                            plotdf |-> IF error # "none" THEN <<>>
                                       ELSE cumsum_for_cumulative(resamp_feeds, a.group_by_cols)]
              /\ cumulative_dtype' = dtype_after_cumulative(cumulative_dtype, error)
    /\ UNCHANGED <<pc, metadata_csv, feedlog_csv, non_feeding_flies, flies, feeds>>
    /\ UNCHANGED <<expts, lists>>

(* The call whose outcome is r raised.                                     *)
Failed(r) ==
    \/ r.op \in {"contrast", "contrast list"} /\ r.raised
    \/ r.op \in {"check_group_by_color_by", "cumulative"} /\ r.error # "none"

(* The caller has the table or the exception of its call.                  *)
Return ==
    /\ pc \in LoadedPcs
    /\ result # NoResult
    /\ result' = NoResult
    /\ pc' = IF Failed(result) THEN "loaded, a call failed" ELSE pc
    /\ UNCHANGED <<metadata_csv, feedlog_csv, non_feeding_flies, flies, feeds, cumulative_dtype>>
    /\ UNCHANGED <<expts, lists>>

CallNext ==
    \/ MungeCsv
    \/ DetectNonFeedingFlies
    \/ AddPadrows
    \/ MergeAndAnnotate
    \/ CheckGroupByColorBy
    \/ ContrastCall
    \/ ContrastCallList
    \/ CumulativeCall
    \/ Return

CallSpec == CallInit /\ [][CallNext]_vars

-----------------------------------------------------------------------------
(* Properties of the calls that raise.                                     *)

(* The values of a column in the feeds of the experiment.                  *)
Categories(c) == {feeds[i][c] : i \in DOMAIN feeds}

(* C14: contrast_plot_munger raises, and there is no table, when the       *)
(* column of compare_by has fewer than two distinct values in the feeds it *)
(* is given, when compare_by is the column of group_by, and when it is one *)
(* of the columns of a group_by list.                                      *)
C14_ContrastRaisesOnDegenerateCompare ==
    /\ result.op = "contrast" =>
           LET a == result.args
           IN (Cardinality(Categories(a.compare_by)) < 2 \/ a.compare_by = a.group_by) =>
                  result.raised /\ result.plotdf = <<>>
    /\ result.op = "contrast list" =>
           LET a == result.args
           IN (\/ Cardinality(Categories(a.compare_by)) < 2
               \/ \E k \in DOMAIN a.group_by : a.group_by[k] = a.compare_by) =>
                  result.raised /\ result.plotdf = <<>>

(* A call that raised on feeds of one genotype, compared by genotype and   *)
(* grouped by another column.                                              *)
C14_Witness ==
    /\ result.op = "contrast"
    /\ result.raised
    /\ result.args.compare_by = "Genotype"
    /\ result.args.group_by = "FoodChoice"
    /\ Cardinality(Categories("Genotype")) = 1
    /\ Cardinality(Categories("FoodChoice")) = 2

(* The tables of the experiment as the load left them.                     *)
loaded_feeds == allfeeds_of(metadata_csv, feedlog_csv, non_feeding_flies)

loaded_flies == allflies_of(metadata_csv, non_feeding_flies)

C16_ResampleLeavesCallersTable ==
    [][result'.op = "cumulative" => cumulative_dtype' = cumulative_dtype]_vars

HasPadRows(df) == \E i \in DOMAIN df : IsPad(df[i])

(* C17: the set of non-feeding flies is computed on the munged log, which  *)
(* holds no pad row yet, and the log holds pad rows only after the set has *)
(* been computed.                                                          *)
C17_DetectionBeforePadding ==
    /\ [][pc' = "detected" =>
              /\ pc = "munged"
              /\ ~HasPadRows(feedlog_csv)
              /\ non_feeding_flies' = detect_non_feeding_flies(metadata_csv, feedlog_csv)]_vars
    /\ [](HasPadRows(feedlog_csv) => pc \in {"padded", "loaded"})
    /\ [](pc \in {"start", "munged"} => non_feeding_flies = {})

(* A padded log of an experiment with a fly that never fed and a fly that  *)
(* did.                                                                    *)
C17_Witness ==
    /\ pc = "padded"
    /\ HasPadRows(feedlog_csv)
    /\ non_feeding_flies # {}
    /\ \E i \in DOMAIN feedlog_csv : ~IsPad(feedlog_csv[i])

-----------------------------------------------------------------------------
(* The load on its own, CSVs of no rows among its inputs.                  *)

LoadInit ==
    /\ pc = "start"
    /\ metadata_csv \in MetadataInputs \cup {<<>>}
    /\ feedlog_csv \in FeedlogInputs
    /\ non_feeding_flies = {}
    /\ flies = <<>>
    /\ feeds = <<>>
    /\ cumulative_dtype = "float64"
    /\ result = NoResult
    /\ expts = <<>>
    /\ lists = <<>>

LoadNext ==
    \/ MungeCsv
    \/ DetectNonFeedingFlies
    \/ AddPadrows
    \/ MergeAndAnnotate

LoadSpec == LoadInit /\ [][LoadNext]_vars

(* C18: the load of a MetaData or FeedLog CSV of no rows ends with a       *)
(* ValueError and no experiment, whatever rows of the log would have been  *)
(* dropped; a log whose rows are all dropped later is not of no rows.      *)
C18_EmptyTableRaisesValueError ==
    [][pc = "start" =>
          IF Len(metadata_csv) = 0 \/ Len(feedlog_csv) = 0
          THEN /\ pc' = "aborted"
               /\ result'.error = "ValueError"
          ELSE pc' = "munged"]_vars

-----------------------------------------------------------------------------
(* munger.feedlog on its own.                                              *)

FeedlogInit ==
    /\ pc = "read_csv"
    /\ feedlog_csv \in FeedlogInputs
    /\ metadata_csv = <<>>
    /\ non_feeding_flies = {}
    /\ flies = <<>>
    /\ feeds = <<>>
    /\ cumulative_dtype = "float64"
    /\ result = NoResult
    /\ expts = <<>>
    /\ lists = <<>>

(* feedlog returns the munged log or raises; result keeps the log as read. *)
Feedlog ==
    /\ pc = "read_csv"
    /\ pc' = "feedlog"
    /\ result' = [op |-> "feedlog", given |-> feedlog_csv, error |-> feedlog_raises(feedlog_csv)]
    /\ feedlog_csv' = IF feedlog_raises(feedlog_csv) # "none" THEN feedlog_csv
                      ELSE feedlog(feedlog_csv)
    /\ UNCHANGED <<metadata_csv, non_feeding_flies, flies, feeds, cumulative_dtype>>
    /\ UNCHANGED <<expts, lists>>

FeedlogNext == Feedlog

FeedlogSpec == FeedlogInit /\ [][FeedlogNext]_vars

(* The row has neither defect: a recording, and a time that is not         *)
(* negative.                                                               *)
DefectFree(r) == r.AviFile # "Null" /\ r.RelativeTime_s >= 0

(* C19: the log feedlog returns has no row without a recording and no row  *)
(* of negative time, and it is the rows of the log as read that have       *)
(* neither defect, in their order, each unchanged but for its ChamberID,   *)
(* which is one more.                                                      *)
C19_FeedlogDropsDefectsOnly ==
    (result.op = "feedlog" /\ result.error = "none") =>
        LET given == result.given
            kept == Filter(given, {i \in DOMAIN given : DefectFree(given[i])})
        IN /\ \A i \in DOMAIN feedlog_csv : DefectFree(feedlog_csv[i])
           /\ Len(feedlog_csv) = Len(kept)
           /\ \A i \in DOMAIN kept :
                  /\ feedlog_csv[i].ChamberID = kept[i].ChamberID + 1
                  /\ \A c \in DOMAIN kept[i] \ {"ChamberID"} : feedlog_csv[i][c] = kept[i][c]

(* A log of a row with a defect and a feed at 0 s: the feed is the log     *)
(* returned.                                                               *)
C19_Witness ==
    /\ result.op = "feedlog"
    /\ result.error = "none"
    /\ Len(result.given) = 2
    /\ \E i \in DOMAIN result.given : ~DefectFree(result.given[i])
    /\ Len(feedlog_csv) = 1
    /\ feedlog_csv[1].RelativeTime_s = 0

-----------------------------------------------------------------------------
(* Properties of the food choices of the merged table.                     *)

(* The row of the log has a food choice in the metadata.                   *)
Mapped(r) == assign_food_choice(r.ChamberID, r.ChoiceIdx + 1, metadata_csv) # NaNStr

(* The recorded feed r of the log is a row of the feeds.                   *)
InFeeds(r) ==
    \E j \in DOMAIN feeds :
        /\ ~IsPad(feeds[j])
        /\ \A c \in {"ChamberID", "ChoiceIdx", "RelativeTime_s", "FeedVol_ul", "FeedDuration_ms"} :
               feeds[j][c] = r[c]

(* C20: the load of a log with rows that have no food choice in the        *)
(* metadata goes through, and of the recorded feeds of the log the feeds   *)
(* of the experiment hold those that have a food choice and no other.      *)
C20_MappedRowsAreKept ==
    pc = "loaded" =>
        \A i \in DOMAIN feedlog_csv :
            ~IsPad(feedlog_csv[i]) => (InFeeds(feedlog_csv[i]) <=> Mapped(feedlog_csv[i]))

-----------------------------------------------------------------------------
(* Contrast tables of experiments with three foods per chamber.            *)

MaxChoiceFeeds == 3

(* Two flies with the columns 'Food 1', 'Food 2' and 'Food 3'.             *)
ThreeChoiceProfiles ==
    { [Genotype |-> g, FlyCountInChamber |-> NaN, Tube1 |-> "5%S", Tube2 |-> "5%YE",
       Tube3 |-> "water"] : g \in {"W1118", "Trp"} }

ThreeChoiceMetadata ==
    { [i \in 1..MaxFlies |-> [ID |-> i] @@ p[i]] : p \in [1..MaxFlies -> ThreeChoiceProfiles] }

(* Feeds on each of the three foods, inside the first hour and after it.   *)
ThreeChoiceRows ==
    { FeedRow(fly, choice, "clip.avi", 10, 1000, t) :
        fly \in 0..(MaxFlies - 1), choice \in {0, 1, 2}, t \in {1800, 3700} }

ThreeChoiceKey(r) == <<r.ChamberID, r.ChoiceIdx, r.RelativeTime_s>>

ThreeChoiceInputs ==
    UNION { { f \in [1..n -> ThreeChoiceRows] :
                \A i \in 1..(n - 1) :
                    \/ ThreeChoiceKey(f[i]) = ThreeChoiceKey(f[i + 1])
                    \/ LexLess(ThreeChoiceKey(f[i]), ThreeChoiceKey(f[i + 1])) }
            : n \in 0..MaxChoiceFeeds }

ThreeChoiceInit ==
    /\ pc = "start"
    /\ metadata_csv \in ThreeChoiceMetadata
    /\ feedlog_csv \in ThreeChoiceInputs
    /\ non_feeding_flies = {}
    /\ flies = <<>>
    /\ feeds = <<>>
    /\ cumulative_dtype = "float64"
    /\ result = NoResult
    /\ expts = <<>>
    /\ lists = <<>>

ContrastNext ==
    \/ MungeCsv
    \/ DetectNonFeedingFlies
    \/ AddPadrows
    \/ MergeAndAnnotate
    \/ ContrastPlot
    \/ Discard

ThreeChoiceSpec == ThreeChoiceInit /\ [][ContrastNext]_vars

(* The grouping key of a contrast table: the chamber and the three         *)
(* columns of the call.                                                    *)
ContrastKey(r) ==
    <<r.ChamberID, r[result.args.compare_by], r[result.args.color_by], r[result.args.group_by]>>

(* C21: no two rows of a contrast table have the same grouping key, and    *)
(* when FoodChoice is one of the grouping columns every (chamber, food     *)
(* choice) of the feeds has one row in the table, with volume, count and   *)
(* duration 0 and no latency when the chamber had no feed of the choice    *)
(* inside the window.                                                      *)
C21_OneRowPerKeyAndSubject ==
    ContrastDone =>
        LET plotdf == result.plotdf
            a == result.args
            w == select_in_window(feeds, a.start_hour, a.end_hour)
        IN /\ \A i \in DOMAIN plotdf : \A j \in DOMAIN plotdf :
                  ContrastKey(plotdf[i]) = ContrastKey(plotdf[j]) => i = j
           /\ "FoodChoice" \in {a.group_by, a.compare_by, a.color_by} =>
                  \A k \in DOMAIN feeds :
                      LET rows == {i \in DOMAIN plotdf :
                                      /\ plotdf[i].ChamberID = feeds[k].ChamberID
                                      /\ plotdf[i].FoodChoice = feeds[k].FoodChoice}
                          fed == \E i \in DOMAIN w :
                                     /\ w[i].ChamberID = feeds[k].ChamberID
                                     /\ w[i].FoodChoice = feeds[k].FoodChoice
                      IN /\ Cardinality(rows) = 1
                         /\ ~fed => \A i \in rows :
                                /\ plotdf[i].AverageFeedVolumePerFly_ul = 0
                                /\ plotdf[i].AverageFeedCountPerFly = 0
                                /\ plotdf[i].FeedDuration_ms = 0
                                /\ plotdf[i].RelativeTime_s = NaN

-----------------------------------------------------------------------------
(* The composite key of the contrast table.                                *)

(* C22: in a contrast table the key plot_groups_with_contrast of a row is  *)
(* its group_by value, '; ', its compare_by value, and the categories of   *)
(* the key are in the order in which the distinct keys are first seen when *)
(* the rows are sorted by the group_by column and then the compare_by      *)
(* column.                                                                 *)
C22_CategoriesInSortedKeyOrder ==
    ContrastDone =>
        LET a == result.args
            t == result.plotdf
        IN /\ \A i \in DOMAIN t :
                  t[i].plot_groups_with_contrast
                      = t[i][a.group_by] \o "; " \o t[i][a.compare_by]
           /\ sorted_plot_groups(t)
                  = unique(Column(sort_values(t, <<a.group_by, a.compare_by>>),
                                  "plot_groups_with_contrast"))

-----------------------------------------------------------------------------
(* make_categorical_columns on its own: the Status column and the          *)
(* categories of Genotype, for tables of genotypes.                        *)

MaxGenotypeRows == 3
MaxGenotypeLen == 9

GenotypeNames == {"w1118", "W1118", "Trp", "elav", "w118", "UAS-W1118", "w1118;Trp"}

GenotypeInputs ==
    UNION { [1..n -> [ChamberID : {1}, Genotype : GenotypeNames]] : n \in 1..MaxGenotypeRows }

(* ord() of the characters of the model.                                   *)
Ord(c) ==
    CASE c = "-" -> 45 [] c = "1" -> 49 [] c = "8" -> 56 [] c = ";" -> 59
      [] c = "A" -> 65 [] c = "S" -> 83 [] c = "T" -> 84 [] c = "U" -> 85
      [] c = "W" -> 87 [] c = "a" -> 97 [] c = "e" -> 101 [] c = "l" -> 108
      [] c = "p" -> 112 [] c = "r" -> 114 [] c = "v" -> 118 [] c = "w" -> 119

(* The key by which sort_values orders a str: its code points, a string    *)
(* before those it is a prefix of.                                         *)
StrKey(s) ==
    [k \in 1..MaxGenotypeLen |-> IF k <= Len(Chars(s)) THEN Ord(Chars(s)[k]) ELSE 0]

(* Lines 278 to 280: the genotypes of df.sort_values(['Status',            *)
(* 'Genotype']) in the order of their first appearance; the categories of  *)
(* Status are ordered ['Sibling', 'Offspring'] (line 274).                 *)
genotypes_ordered(df) ==
    unique(Column(SortByKey(df, [i \in DOMAIN df |->
                                    <<IF df[i].Status = "Sibling" THEN 0 ELSE 1>>
                                        \o StrKey(df[i].Genotype)]),
                  "Genotype"))

CategoryInit ==
    /\ pc = "start"
    /\ flies \in GenotypeInputs
    /\ metadata_csv = <<>>
    /\ feedlog_csv = <<>>
    /\ non_feeding_flies = {}
    /\ feeds = <<>>
    /\ cumulative_dtype = "float64"
    /\ result = NoResult
    /\ expts = <<>>
    /\ lists = <<>>

(* make_categorical_columns(flies): Status is assigned in place, and       *)
(* Genotype gets its categories.                                           *)
MakeCategoricalColumns ==
    /\ pc = "start"
    /\ pc' = "categorical"
    /\ flies' = make_categorical_columns(flies)
    /\ result' = [op |-> "make_categorical_columns",
                  categories |-> genotypes_ordered(make_categorical_columns(flies))]
    /\ UNCHANGED <<metadata_csv, feedlog_csv, non_feeding_flies, feeds, cumulative_dtype>>
    /\ UNCHANGED <<expts, lists>>

CategoryNext == MakeCategoricalColumns

CategorySpec == CategoryInit /\ [][CategoryNext]_vars

(* The genotypes of the model that have 'w1118' in them, in any case.      *)
HasW1118 == {"w1118", "W1118", "UAS-W1118", "w1118;Trp"}

(* The genotypes of the model in ascending order of their characters.      *)
Alphabetical == <<"Trp", "UAS-W1118", "W1118", "elav", "w1118", "w1118;Trp", "w118">>

Position(g) == CHOOSE k \in DOMAIN Alphabetical : Alphabetical[k] = g

(* C23: make_categorical_columns gives the Status 'Sibling' to the rows    *)
(* whose genotype has 'w1118' in it, in any case, and 'Offspring' to the   *)
(* others; the categories of Genotype are the genotypes of the table, each *)
(* once, every Sibling genotype before every Offspring genotype and the    *)
(* genotypes of one status in ascending alphabetical order.                *)
C23_StatusRuleAndGenotypeOrder ==
    pc = "categorical" =>
        LET cats == result.categories
            sibling(g) == g \in HasW1118
        IN /\ \A i \in DOMAIN flies :
                  flies[i].Status = IF sibling(flies[i].Genotype) THEN "Sibling" ELSE "Offspring"
           /\ SeqToSet(cats) = Unique(flies, "Genotype")
           /\ \A i, j \in DOMAIN cats :
                  i < j =>
                      /\ cats[i] # cats[j]
                      /\ sibling(cats[i]) \/ ~sibling(cats[j])
                      /\ sibling(cats[i]) = sibling(cats[j])
                             => Position(cats[i]) < Position(cats[j])

(* A table with an upper-case sibling genotype, a genotype that has w1118  *)
(* inside it and an offspring genotype that is first in the alphabet.      *)
C23_Witness ==
    /\ pc = "categorical"
    /\ result.categories = <<"UAS-W1118", "W1118", "Trp">>
    /\ flies[1].Genotype = "Trp"

-----------------------------------------------------------------------------
(* Experiment objects and their labels: attach_label, remove_labels,       *)
(* remove_all_labels and __add__ of espresso.py, and the contrast plotter  *)
(* of an object.  expts maps the name of an object to its attributes;      *)
(* added_labels is a reference to a list in lists, or NoAttribute; lists   *)
(* that no object refers to are empty.  An argument that may be None, a    *)
(* str or a list is a record of its type and its value.                    *)

MaxLabels == 2
MaxObjects == 3

NoAttribute == 0

LabelNames == {"lab1", "lab2"}

(* espresso(folder): the load of lines 34 to 190 in one step, for a folder *)
(* of MaxFlies flies of one genotype and a feed of the first fly on each   *)
(* food inside the first hour; the plotter of the object has its copy of   *)
(* the feeds (contrast.py, line 28).                                       *)
espresso(genotype) ==
    LET munged == [i \in 1..MaxFlies |->
                      metadata([j \in 1..MaxFlies |->
                                   [ID |-> j, Genotype |-> genotype,
                                    FlyCountInChamber |-> NaN,
                                    Tube1 |-> "5%S", Tube2 |-> "5%YE"]])[i]
                          @@ [ChamberID |-> i]]
        log == feedlog(<< FeedRow(0, 0, "clip.avi", 10, 1000, 900),
                          FeedRow(0, 1, "clip.avi", 10, 1000, 1800) >>)
        non_feeding == detect_non_feeding_flies(munged, log)
        padded == add_padrows(munged, log, ToFloat(expt_duration_minutes * 60), 0)
        allfeeds == allfeeds_of(munged, padded, non_feeding)
    IN [flies |-> allflies_of(munged, non_feeding), feeds |-> allfeeds,
        added_labels |-> NoAttribute, plot_feeds |-> allfeeds]

(* The lists after the objects have become objs: a list without a          *)
(* reference is collected.                                                 *)
Collect(heap, objs) ==
    [r \in DOMAIN heap |->
        IF \E o \in DOMAIN objs : objs[o].added_labels = r THEN heap[r] ELSE <<>>]

(* df.drop(labels, axis=1)                                                 *)
drop(df, labels) ==
    [i \in DOMAIN df |-> [c \in DOMAIN df[i] \ SeqToSet(labels) |-> df[i][c]]]

(* Lines 569 to 589 of munger.py, by the exception raised.                 *)
contrast_error(df, group_by, compare_by, color_by) ==
    IF group_by = compare_by THEN "ValueError"
    ELSE IF \E c \in {compare_by, color_by, group_by} : check_column(c, df) # "none"
         THEN "KeyError"
    ELSE IF Cardinality(Unique(df, compare_by)) < 2 THEN "ValueError"
    ELSE "none"

RECURSIVE sep_join(_, _, _)
(* Lines 388 to 391 for one row: sep.join(x.dropna().astype(str)).         *)
sep_join(r, cols, sep) ==
    LET str(c) == IF c = "AtLeastOneFeed" THEN (IF r[c] THEN "True" ELSE "False") ELSE r[c]
        isna(c) == IF c = "AtLeastOneFeed" THEN FALSE ELSE r[c] = Null(c)
        present == SelectSeq(cols, LAMBDA c : ~isna(c))
        n == Len(present)
    IN IF n = 0 THEN ""
       ELSE IF n = 1 THEN str(present[1])
       ELSE sep_join(r, SubSeq(present, 1, n - 1), sep) \o sep \o str(present[n])

(* attach_label, lines 364 to 401: the exception it raises ("none" when it *)
(* returns), the two tables it leaves, and whether it has recorded the     *)
(* name.                                                                   *)
attach_label(self, label_name, label_value, label_from_cols, sep) ==
    LET unchanged(error) == [error |-> error, flies |-> self.flies, feeds |-> self.feeds,
                             recorded |-> FALSE]
        with_value(obj) ==
            [i \in DOMAIN obj |-> Assign(obj[i], [c \in {label_name} |-> label_value.str])]
        from_cols(obj) ==
            [i \in DOMAIN obj |->
                Assign(obj[i], [c \in {label_name} |->
                                   sep_join(obj[i], label_from_cols.list, sep)])]
    IN IF label_value.type = "NoneType" /\ label_from_cols.type = "NoneType"
       THEN unchanged("ValueError")
       ELSE IF label_value.type # "NoneType" /\ label_from_cols.type # "NoneType"
            THEN unchanged("ValueError")
       ELSE IF label_from_cols.type \notin {"NoneType", "list"} THEN unchanged("TypeError")
       ELSE IF label_value.type # "NoneType"
            THEN [error |-> "none", flies |-> with_value(self.flies),
                  feeds |-> with_value(self.feeds), recorded |-> TRUE]
       ELSE IF ~(SeqToSet(label_from_cols.list) \subseteq Columns(self.flies))
            THEN unchanged("KeyError")
       ELSE IF ~(SeqToSet(label_from_cols.list) \subseteq Columns(self.feeds))
            THEN [error |-> "KeyError", flies |-> from_cols(self.flies),
                  feeds |-> self.feeds, recorded |-> FALSE]
       ELSE [error |-> "none", flies |-> from_cols(self.flies),
             feeds |-> from_cols(self.feeds), recorded |-> TRUE]

(* self.attach_label(label_name, label_value, label_from_cols): the list   *)
(* of the object is extended in place, or a new list becomes its           *)
(* attribute (lines 396 to 400).  An experiment that is alone gets every   *)
(* kind of argument; where there are several objects the label has a       *)
(* custom value and is not yet a column of the object, and the operands    *)
(* get the first name only.                                                *)
AttachLabel ==
    /\ pc = "loaded"
    /\ \E o \in DOMAIN expts :
       LET self == expts[o]
           alone == Cardinality(DOMAIN expts) = 1
           names == IF alone THEN LabelNames
                    ELSE (IF o = "sum" THEN LabelNames ELSE {"lab1"}) \ Columns(self.flies)
           values == IF alone THEN {[type |-> "NoneType"], [type |-> "str", str |-> "x"]}
                     ELSE {[type |-> "str", str |-> "x"]}
           cols == IF alone
                   THEN {[type |-> "NoneType"],
                         [type |-> "list", list |-> <<"Genotype">>],
                         [type |-> "list", list |-> <<"Genotype", "Status">>],
                         [type |-> "list", list |-> <<"AtLeastOneFeed">>],
                         [type |-> "list", list |-> <<"Sex">>],
                         [type |-> "str", str |-> "Genotype"]}
                   ELSE {[type |-> "NoneType"]}
           free == CHOOSE r \in DOMAIN lists : \A q \in DOMAIN expts : expts[q].added_labels # r
           ref == IF self.added_labels # NoAttribute THEN self.added_labels ELSE free
       IN \E label_name \in names, label_value \in values, label_from_cols \in cols :
           LET call == attach_label(self, label_name, label_value, label_from_cols, ",")
           IN /\ self.added_labels # NoAttribute => Len(lists[self.added_labels]) < MaxLabels
              /\ result' = [op |-> "attach_label", self |-> o, label_name |-> label_name,
                            error |-> call.error]
              /\ expts' = [expts EXCEPT ![o].flies = call.flies,
                                        ![o].feeds = call.feeds,
                                        ![o].added_labels =
                                            IF call.recorded THEN ref ELSE @]
              /\ lists' = IF call.recorded
                          THEN [lists EXCEPT ![ref] = Append(@, label_name)]
                          ELSE lists
    /\ UNCHANGED <<pc, metadata_csv, feedlog_csv, non_feeding_flies, flies, feeds,
                   cumulative_dtype>>

RECURSIVE remove_each(_, _)
(* Lines 441 and 442: the names are removed one after the other, each at   *)
(* its first place in the list; the first that is not in the list raises   *)
(* ValueError.                                                             *)
remove_each(list, labels) ==
    IF labels = <<>> THEN [error |-> "none", list |-> list]
    ELSE IF labels[1] \notin SeqToSet(list) THEN [error |-> "ValueError", list |-> list]
    ELSE LET k == CHOOSE i \in DOMAIN list :
                      list[i] = labels[1] /\ \A j \in 1..(i - 1) : list[j] # labels[1]
         IN remove_each(SubSeq(list, 1, k - 1) \o SubSeq(list, k + 1, Len(list)),
                        Tail(labels))

(* remove_labels, lines 409 to 444, on an object whose added_labels is     *)
(* list: the exception it raises, the two tables and the list it leaves,   *)
(* and whether it has deleted the attribute.                               *)
remove_labels(self, list, labels_arg) ==
    LET labels == IF labels_arg.type = "str" THEN <<labels_arg.str>> ELSE labels_arg.list
        in_added == SelectSeq(labels, LAMBDA l : l \in SeqToSet(list))
        unchanged(error) == [error |-> error, flies |-> self.flies, feeds |-> self.feeds,
                             list |-> list, deleted |-> FALSE]
        removed == remove_each(list, labels)
    IN IF self.added_labels = NoAttribute THEN unchanged("KeyError")
       ELSE IF Len(in_added) = 0 THEN unchanged("KeyError")
       ELSE IF ~(SeqToSet(labels) \subseteq Columns(self.flies)) THEN unchanged("KeyError")
       ELSE IF ~(SeqToSet(labels) \subseteq Columns(self.feeds))
            THEN [error |-> "KeyError", flies |-> drop(self.flies, labels),
                  feeds |-> self.feeds, list |-> list, deleted |-> FALSE]
       ELSE IF labels = list
            THEN [error |-> "none", flies |-> drop(self.flies, labels),
                  feeds |-> drop(self.feeds, labels), list |-> list, deleted |-> TRUE]
       ELSE [error |-> removed.error, flies |-> drop(self.flies, labels),
             feeds |-> drop(self.feeds, labels), list |-> removed.list, deleted |-> FALSE]

(* remove_all_labels, lines 447 to 463.                                    *)
remove_all_labels(self, list) ==
    LET unchanged(error) == [error |-> error, flies |-> self.flies, feeds |-> self.feeds,
                             list |-> list, deleted |-> FALSE]
    IN IF self.added_labels = NoAttribute THEN unchanged("KeyError")
       ELSE IF ~(SeqToSet(list) \subseteq Columns(self.flies)) THEN unchanged("KeyError")
       ELSE IF ~(SeqToSet(list) \subseteq Columns(self.feeds))
            THEN [error |-> "KeyError", flies |-> drop(self.flies, list),
                  feeds |-> self.feeds, list |-> list, deleted |-> FALSE]
       ELSE [error |-> "none", flies |-> drop(self.flies, list),
             feeds |-> drop(self.feeds, list), list |-> list, deleted |-> TRUE]

(* self.remove_labels(labels): the tables and the attribute of the object  *)
(* after the call, and the list, which every object that refers to it      *)
(* sees.                                                                   *)
RemoveLabels ==
    /\ pc = "loaded"
    /\ \E o \in DOMAIN expts :
       LET self == expts[o]
           list == IF self.added_labels # NoAttribute THEN lists[self.added_labels] ELSE <<>>
           args == IF Cardinality(DOMAIN expts) = 1
                   THEN {[type |-> "str", str |-> "lab1"],
                         [type |-> "str", str |-> "lab2"],
                         [type |-> "str", str |-> "Genotype"],
                         [type |-> "list", list |-> <<"lab1">>],
                         [type |-> "list", list |-> <<"lab1", "lab2">>],
                         [type |-> "list", list |-> <<"lab2", "lab1">>],
                         [type |-> "list", list |-> <<"lab1", "Genotype">>]}
                   ELSE {[type |-> "str", str |-> "lab1"],
                         [type |-> "str", str |-> "lab2"]}
       IN \E labels \in args :
           LET call == remove_labels(self, list, labels)
               objs == [expts EXCEPT ![o].flies = call.flies,
                                     ![o].feeds = call.feeds,
                                     ![o].added_labels =
                                         IF call.deleted THEN NoAttribute ELSE @]
               heap == IF self.added_labels # NoAttribute /\ ~call.deleted
                       THEN [lists EXCEPT ![self.added_labels] = call.list]
                       ELSE lists
           IN /\ result' = [op |-> "remove_labels", self |-> o, labels |-> labels,
                            error |-> call.error]
              /\ expts' = objs
              /\ lists' = Collect(heap, objs)
    /\ UNCHANGED <<pc, metadata_csv, feedlog_csv, non_feeding_flies, flies, feeds,
                   cumulative_dtype>>

(* self.remove_all_labels()                                                *)
RemoveAllLabels ==
    /\ pc = "loaded"
    /\ \E o \in DOMAIN expts :
           LET self == expts[o]
               list == IF self.added_labels # NoAttribute THEN lists[self.added_labels]
                       ELSE <<>>
               call == remove_all_labels(self, list)
               objs == [expts EXCEPT ![o].flies = call.flies,
                                     ![o].feeds = call.feeds,
                                     ![o].added_labels =
                                         IF call.deleted THEN NoAttribute ELSE @]
           IN /\ result' = [op |-> "remove_all_labels", self |-> o, error |-> call.error]
              /\ expts' = objs
              /\ lists' = Collect(lists, objs)
    /\ UNCHANGED <<pc, metadata_csv, feedlog_csv, non_feeding_flies, flies, feeds,
                   cumulative_dtype>>

(* The contrast plotter of an object is asked for a table grouped by one   *)
(* of the label names: contrast_plot_munger on the plotter's copy of the   *)
(* feeds, by the exception the call ends with.                             *)
LabelContrast ==
    /\ pc = "loaded"
    /\ \E o \in DOMAIN expts, group_by \in LabelNames :
           result' = [op |-> "contrast", self |-> o, group_by |-> group_by,
                      error |-> contrast_error(expts[o].plot_feeds, group_by,
                                               "FoodChoice", "Genotype")]
    /\ UNCHANGED <<pc, metadata_csv, feedlog_csv, non_feeding_flies, flies, feeds,
                   cumulative_dtype, expts, lists>>

(* One experiment, loaded, without labels.                                 *)
LabelInit ==
    /\ pc = "loaded"
    /\ metadata_csv = <<>>
    /\ feedlog_csv = <<>>
    /\ non_feeding_flies = {}
    /\ flies = <<>>
    /\ feeds = <<>>
    /\ cumulative_dtype = "float64"
    /\ result = NoResult
    /\ \E genotype \in {"W1118", "Trp"} : expts = [o \in {"a"} |-> espresso(genotype)]
    /\ lists = [r \in 1..MaxObjects |-> <<>>]

LabelNext == AttachLabel \/ RemoveLabels \/ RemoveAllLabels \/ LabelContrast

LabelSpec == LabelInit /\ [][LabelNext]_vars

(* The labels that an object has in both of its tables.                    *)
Attached(self) == LabelNames \cap Columns(self.flies) \cap Columns(self.feeds)

(* The names of the label columns of either table of an object.            *)
LabelColumns(self) == LabelNames \cap (Columns(self.flies) \cup Columns(self.feeds))

(* The names in the list of an object, none when it has no attribute.      *)
Listed(self) ==
    IF self.added_labels # NoAttribute THEN SeqToSet(lists[self.added_labels]) ELSE {}

(* C24: a contrast table grouped by a label that attach_label has added to *)
(* the experiment (the label is in added_labels and a column of the feeds  *)
(* of the experiment) does not end with the KeyError of a missing column.  *)
C24_AttachedLabelUsableInContrast ==
    (/\ result.op = "contrast"
     /\ result.group_by \in Listed(expts[result.self])
     /\ result.group_by \in Attached(expts[result.self]))
        => result.error # "KeyError"

(* C25: every name in added_labels is there once and is a column of the    *)
(* flies and of the feeds, and every label column of the two tables is in  *)
(* added_labels.                                                           *)
C25_AddedLabelsMatchColumns ==
    \A o \in DOMAIN expts :
        LET self == expts[o]
        IN /\ self.added_labels # NoAttribute =>
                  \A i, j \in DOMAIN lists[self.added_labels] :
                      i # j => lists[self.added_labels][i] # lists[self.added_labels][j]
           /\ Listed(self) \subseteq Attached(self)
           /\ LabelColumns(self) \subseteq Listed(self)

(* C26: an experiment has the attribute added_labels exactly when it has a *)
(* label attached, and a removal call on an experiment without labels      *)
(* raises KeyError.                                                        *)
C26_AttributeIffLabelAttached ==
    /\ [](\A o \in DOMAIN expts :
              expts[o].added_labels # NoAttribute <=> Attached(expts[o]) # {})
    /\ [][(/\ result'.op \in {"remove_labels", "remove_all_labels"}
           /\ Attached(expts[result'.self]) = {})
              => result'.error = "KeyError"]_vars

(* C27: remove_labels drops no column but those of labels, and a call that *)
(* raises leaves the tables and added_labels of every object as they were. *)
C27_RemoveLabelsDropsOnlyLabels ==
    [][result'.op = "remove_labels" =>
          /\ \A o \in DOMAIN expts :
                 /\ Columns(expts[o].flies) \ Columns(expts'[o].flies) \subseteq LabelNames
                 /\ Columns(expts[o].feeds) \ Columns(expts'[o].feeds) \subseteq LabelNames
          /\ result'.error # "none" => expts' = expts /\ lists' = lists]_vars

(* C28: attach_label either returns, with the label a column of the flies  *)
(* and of the feeds and its name in added_labels, or raises and leaves the *)
(* tables and added_labels as they were.                                   *)
C28_AttachLabelAllOrNothing ==
    [][result'.op = "attach_label" =>
          IF result'.error = "none"
          THEN /\ result'.label_name \in Attached(expts'[result'.self])
               /\ expts'[result'.self].added_labels # NoAttribute
               /\ result'.label_name \in SeqToSet(lists'[expts'[result'.self].added_labels])
          ELSE expts' = expts /\ lists' = lists]_vars

-----------------------------------------------------------------------------
(* The sum of two experiments: espresso.__add__.                           *)

(* pd.merge(left, right, how='outer'): the rows are joined on the columns  *)
(* the two tables share; a row without a partner has nulls in the columns  *)
(* of the other table.  The order of the rows of the result is not that of *)
(* pandas, which sorts them by key.                                        *)
outer_merge(left, right) ==
    LET on == Columns(left) \cap Columns(right)
        all == Columns(left) \cup Columns(right)
        same(l, r) == \A c \in on : l[c] = r[c]
        fill(row) == row @@ [c \in all \ DOMAIN row |->
                                IF c \in LabelNames THEN NaNStr ELSE Null(c)]
        partners(l) == Filter(right, {j \in DOMAIN right : same(l, right[j])})
        of_left(l) == IF partners(l) = <<>> THEN <<fill(l)>>
                      ELSE [j \in DOMAIN partners(l) |-> l @@ partners(l)[j]]
        alone == Filter(right, {j \in DOMAIN right :
                                   \A i \in DOMAIN left : ~same(left[i], right[j])})
    IN Flatten([i \in DOMAIN left |-> of_left(left[i])])
           \o [j \in DOMAIN alone |-> fill(alone[j])]

(* __add__, lines 273 to 327: the sum is a shallow copy of self (its       *)
(* added_labels is the list of self) with the merged tables and a plotter  *)
(* of its own; the labels of the two operands (lines 290 to 301) go to     *)
(* make_categorical_columns only.                                          *)
add(self, other) ==
    LET allflies == make_categorical_columns(outer_merge(self.flies, other.flies))
        allfeeds == make_categorical_columns(outer_merge(self.feeds, other.feeds))
    IN [flies |-> allflies, feeds |-> allfeeds, added_labels |-> self.added_labels,
        plot_feeds |-> allfeeds]

(* a + b or b + a.  Where make_categorical_columns sorts the values of a   *)
(* label column that has a str and a null (np.sort(c.unique()), line 295   *)
(* of munger.py), the comparison of a str with a float raises TypeError in *)
(* numpy; the sort that succeeds is kept as an outcome too.                *)
Add ==
    /\ pc = "loaded"
    /\ "sum" \notin DOMAIN expts
    /\ \E p \in {<<"a", "b">>, <<"b", "a">>} :
           LET self == expts[p[1]]
               other == expts[p[2]]
               total == add(self, other)
               new_labels == {c \in LabelNames :
                                 \E o \in {p[1], p[2]} :
                                     /\ expts[o].added_labels # NoAttribute
                                     /\ c \in SeqToSet(lists[expts[o].added_labels])}
               str_and_null(df) ==
                   \E c \in new_labels \cap Columns(df) :
                       /\ \E i \in DOMAIN df : df[i][c] = NaNStr
                       /\ \E i \in DOMAIN df : df[i][c] # NaNStr
           IN \/ /\ expts' = [o \in DOMAIN expts \cup {"sum"} |->
                                 IF o = "sum" THEN total ELSE expts[o]]
                 /\ result' = [op |-> "__add__", self |-> p[1], other |-> p[2],
                               error |-> "none"]
              \/ /\ str_and_null(total.flies) \/ str_and_null(total.feeds)
                 /\ expts' = expts
                 /\ result' = [op |-> "__add__", self |-> p[1], other |-> p[2],
                               error |-> "TypeError"]
    /\ UNCHANGED <<pc, metadata_csv, feedlog_csv, non_feeding_flies, flies, feeds,
                   cumulative_dtype, lists>>

(* Two experiments, loaded from two folders, without labels.               *)
SumInit ==
    /\ pc = "loaded"
    /\ metadata_csv = <<>>
    /\ feedlog_csv = <<>>
    /\ non_feeding_flies = {}
    /\ flies = <<>>
    /\ feeds = <<>>
    /\ cumulative_dtype = "float64"
    /\ result = NoResult
    /\ expts = [o \in {"a", "b"} |-> IF o = "a" THEN espresso("W1118") ELSE espresso("Trp")]
    /\ lists = [r \in 1..MaxObjects |-> <<>>]

SumNext == AttachLabel \/ RemoveLabels \/ RemoveAllLabels \/ Add

SumSpec == SumInit /\ [][SumNext]_vars

(* C29: a + b leaves a and b as they were, and the names in added_labels   *)
(* of the sum are those of a and those of b; a call that attaches or       *)
(* removes labels on one object leaves the flies, the feeds and the        *)
(* added_labels of every other object as they were.                        *)
C29_SumIndependentOfOperands ==
    [][/\ result'.op = "__add__" =>
              /\ \A o \in DOMAIN expts : expts'[o] = expts[o]
              /\ lists' = lists
              /\ result'.error = "none" =>
                     Listed(expts["sum"])' = Listed(expts[result'.self])
                                                 \cup Listed(expts[result'.other])
       /\ result'.op \in {"attach_label", "remove_labels", "remove_all_labels"} =>
              \A o \in DOMAIN expts \ {result'.self} :
                  /\ expts'[o] = expts[o]
                  /\ Listed(expts[o])' = Listed(expts[o])]_vars

-----------------------------------------------------------------------------
(* The legacy add_padrows(metadata_df, feedlog_df) of src/_munger and      *)
(* src/munge.py, whose tables have the column FlyID.                       *)

(* Munged feedlogs of at most MaxFeeds feeds, in every order of their      *)
(* rows.                                                                   *)
LegacyFeedlogs ==
    UNION { [1..n -> [FlyID : 1..MaxFlies, ChoiceIdx : {0, 1}, AviFile : {"clip.avi"},
                      FeedVol_ul : {ToFloat(10)}, FeedDuration_ms : {ToFloat(1000)},
                      RelativeTime_s : {ToFloat(900), ToFloat(1800)}, Valid : {TRUE},
                      ExperimentState : {"FEED"}]] : n \in 0..MaxFeeds }

(* Lines 105 to 124: padrows is assigned for every choice, in the order in *)
(* which ChoiceIdx.unique() has them, and appended once per fly, after the *)
(* loop over the choices.                                                  *)
add_padrows_legacy(metadata_df, feedlog_df) ==
    LET choices == unique(Column(feedlog_df, "ChoiceIdx"))
        choice == choices[Len(choices)]
        padrows(flyid) ==
            << [FlyID |-> flyid, ChoiceIdx |-> choice, AviFile |-> "NIL",
                FeedVol_ul |-> NaN, FeedDuration_ms |-> NaN, RelativeTime_s |-> FP \div 2,
                Valid |-> FALSE, ExperimentState |-> "PAD"],
               [FlyID |-> flyid, ChoiceIdx |-> choice, AviFile |-> "NIL",
                FeedVol_ul |-> NaN, FeedDuration_ms |-> NaN,
                RelativeTime_s |-> ToFloat(21891),
                Valid |-> FALSE, ExperimentState |-> "PAD"] >>
        flyids == unique(Column(metadata_df, "FlyID"))
    IN feedlog_df \o Flatten([i \in DOMAIN flyids |-> padrows(flyids[i])])

LegacyInit ==
    /\ pc = "munged"
    /\ metadata_csv = [i \in 1..MaxFlies |-> [FlyID |-> i]]
    /\ feedlog_csv \in LegacyFeedlogs
    /\ non_feeding_flies = {}
    /\ flies = <<>>
    /\ feeds = <<>>
    /\ cumulative_dtype = "float64"
    /\ result = NoResult
    /\ expts = <<>>
    /\ lists = <<>>

(* add_padrows(metadata_df, feedlog_df); on a feedlog of no rows the loop  *)
(* over the choices assigns nothing, and the append of padrows raises      *)
(* UnboundLocalError.                                                      *)
LegacyAddPadrows ==
    /\ pc = "munged"
    /\ pc' = "padded"
    /\ result' = IF feedlog_csv = <<>>
                 THEN [op |-> "add_padrows", error |-> "UnboundLocalError"]
                 ELSE [op |-> "add_padrows", error |-> "none",
                       f |-> add_padrows_legacy(metadata_csv, feedlog_csv)]
    /\ UNCHANGED <<metadata_csv, feedlog_csv, non_feeding_flies, flies, feeds,
                   cumulative_dtype, expts, lists>>

LegacyNext == LegacyAddPadrows

LegacySpec == LegacyInit /\ [][LegacyNext]_vars

(* C30: the feedlog that the legacy add_padrows returns is the feedlog it  *)
(* was given and, for every FlyID of the metadata and every ChoiceIdx of   *)
(* the feedlog, two added PAD rows, one at 0.5 s and one at 21891 s.       *)
C30_LegacyPadsEveryFlyAndChoice ==
    (result.op = "add_padrows" /\ result.error = "none") =>
        LET n == Len(feedlog_csv)
            added == SubSeq(result.f, n + 1, Len(result.f))
            pads(flyid, choice, t) ==
                {i \in DOMAIN added : /\ added[i].FlyID = flyid
                                      /\ added[i].ChoiceIdx = choice
                                      /\ added[i].ExperimentState = "PAD"
                                      /\ added[i].RelativeTime_s = t}
        IN /\ SubSeq(result.f, 1, n) = feedlog_csv
           /\ \A flyid \in Unique(metadata_csv, "FlyID"),
                 choice \in Unique(feedlog_csv, "ChoiceIdx") :
                  /\ Cardinality(pads(flyid, choice, FP \div 2)) = 1
                  /\ Cardinality(pads(flyid, choice, ToFloat(21891))) = 1
                  /\ Cardinality({i \in DOMAIN added : /\ added[i].FlyID = flyid
                                                       /\ added[i].ChoiceIdx = choice}) = 2

=============================================================================
